---- MODULE Spec2Model ----
(***************************************************************************)
(* Model of the netlytics.ai persistence layer (services/api), the graph   *)
(* builder and scoring engine (services/gnn) and the relational schema     *)
(* they write to.  Tables are sequences of rows in insertion order; a row  *)
(* is a record of the columns the modelled code reads or writes.           *)
(***************************************************************************)
EXTENDS Integers, Sequences, FiniteSets, TLC

VARIABLES
  profiles,            \* public.profiles
  connections,         \* public.connections
  gnn_nodes,           \* public.gnn_nodes
  gnn_node_profiles,   \* public.gnn_node_profiles
  gnn_edges,           \* public.gnn_edges
  gnn_predictions,     \* public.gnn_predictions
  comparison_sessions, \* public.comparison_sessions
  comparison_results,  \* public.comparison_results
  inflight,            \* calls suspended at an await: createNodeFromProfile
                       \* between its two statements, compareNetworks runs
  ret                  \* the last call: its name, its arguments, what it returned

vars == <<profiles, connections, gnn_nodes, gnn_node_profiles, gnn_edges,
          gnn_predictions, comparison_sessions, comparison_results, inflight, ret>>

graphVars == <<gnn_nodes, gnn_node_profiles, gnn_edges, gnn_predictions,
               comparison_sessions, comparison_results, inflight>>

----------------------------------------------------------------------------
(* Bounds                                                                  *)

\* number of distinct linkedin_url values an import can carry
MaxProfiles == 2
\* longest payload of a batch upsert
MaxBatch == 2
\* most rows the connections table is let grow to in the store specification
MaxConnections == 2
\* most rows gnn_edges is let grow to
MaxEdges == 6
\* number of profiles in the graph-builder specifications
MaxGraphProfiles == 3
\* most words of a title
MaxTitleLen == 2
\* most successive calls of parseConnectionDate
MaxCalls == 3
\* most lines of the file an upload is about
MaxLines == 2
\* enrichProfiles runs started, and the clock ticks they may take
MaxRuns == 2
MaxTime == 2
\* most comparison sessions
MaxSessions == 1
\* most rows gnn_predictions may hold when a prediction run starts
MaxPriorPredictions == 0

Users == {"u1", "u2"}
Urls == 1..MaxProfiles
ProfileIds == 1..MaxProfiles
Dates == {"2024-01-15", "2025-04-06"}
NULL == "NULL"
\* a title is the sequence of its words; the null title has none
NoTitle == <<>>
\* enriched_at holds one timestamp; the null enriched_at holds none
NotEnriched == <<>>
Companies == {"Acme", "Globex"}

----------------------------------------------------------------------------
(* Generic helpers                                                         *)

Range(s) == {s[i] : i \in 1..Len(s)}

SeqsUpTo(S, n) == UNION {[1..k -> S] : k \in 0..n}

\* a payload names the same key twice
HasDuplicate(keys) ==
  \E i, j \in 1..Len(keys) : i < j /\ keys[i] = keys[j]

----------------------------------------------------------------------------
(* public.profiles: linkedin_url TEXT UNIQUE NOT NULL                      *)

\* a contact carries a company or a title
ProfilePayloads ==
  [linkedin_url : Urls, company : {"Acme"}, title : {NoTitle}]
  \cup [linkedin_url : Urls, company : {NULL}, title : {<<"vp">>}]

UrlExists(tbl, url) == \E i \in 1..Len(tbl) : tbl[i].linkedin_url = url

NewProfileRow(tbl, p) ==
  [id |-> Len(tbl) + 1, linkedin_url |-> p.linkedin_url,
   company |-> p.company, title |-> p.title, job_function |-> NULL,
   industry |-> NULL, role_level |-> NULL, skills |-> NULL, tags |-> NULL,
   company_size |-> NULL, company_location |-> NULL, is_public |-> NULL,
   founded_year |-> NULL, enriched_at |-> NotEnriched]

\* INSERT without the conflict target: every payload row becomes a new row
ProfileUpsertRow_AlwaysInsert(tbl, p) == Append(tbl, NewProfileRow(tbl, p))

\* INSERT ... ON CONFLICT (linkedin_url) DO UPDATE SET <payload columns>
ProfileUpsertRow(tbl, p) ==
  IF UrlExists(tbl, p.linkedin_url)
  THEN [i \in 1..Len(tbl) |->
          IF tbl[i].linkedin_url = p.linkedin_url
          THEN [tbl[i] EXCEPT !.company = p.company, !.title = p.title]
          ELSE tbl[i]]
  ELSE Append(tbl, NewProfileRow(tbl, p))

Coalesce(a, b) == IF a # NULL THEN a ELSE b

\* one iteration of upsert_profile_batch: the update keeps a column the
\* payload leaves null
ProfileUpsertRowCoalesce(tbl, p) ==
  IF UrlExists(tbl, p.linkedin_url)
  THEN [i \in 1..Len(tbl) |->
          IF tbl[i].linkedin_url = p.linkedin_url
          THEN [tbl[i] EXCEPT !.company = Coalesce(p.company, tbl[i].company),
                              !.title = IF p.title # NoTitle THEN p.title ELSE tbl[i].title]
          ELSE tbl[i]]
  ELSE Append(tbl, NewProfileRow(tbl, p))

RECURSIVE ProfileUpsertAll(_, _)
ProfileUpsertAll(tbl, batch) ==
  IF batch = <<>> THEN tbl
  ELSE ProfileUpsertAll(ProfileUpsertRow(tbl, Head(batch)), Tail(batch))

RECURSIVE ProfileUpsertAllCoalesce(_, _)
ProfileUpsertAllCoalesce(tbl, batch) ==
  IF batch = <<>> THEN tbl
  ELSE ProfileUpsertAllCoalesce(ProfileUpsertRowCoalesce(tbl, Head(batch)), Tail(batch))

ProfileUrl(p) == p.linkedin_url

Conflicts(tbl, batch) ==
  Cardinality({i \in 1..Len(batch) : UrlExists(tbl, batch[i].linkedin_url)})

upsertProfile(p) ==
  /\ profiles' = ProfileUpsertRow(profiles, p)
  /\ ret' = [op |-> "upsertProfile", conflicts |-> Conflicts(profiles, <<p>>),
             value |-> 1]
  /\ UNCHANGED <<connections, graphVars>>

\* one statement: a payload that names a linkedin_url twice makes the
\* statement fail (ON CONFLICT DO UPDATE cannot affect a row a second time)
\* and the function returns []
upsertProfiles(batch) ==
  /\ IF HasDuplicate([i \in 1..Len(batch) |-> ProfileUrl(batch[i])])
     THEN /\ profiles' = profiles
          /\ ret' = [op |-> "upsertProfiles", conflicts |-> 0, value |-> 0]
     ELSE /\ profiles' = ProfileUpsertAll(profiles, batch)
          /\ ret' = [op |-> "upsertProfiles",
                     conflicts |-> Conflicts(profiles, batch),
                     value |-> Len(batch)]
  /\ UNCHANGED <<connections, graphVars>>

\* a loop of single-row statements inside one function call
upsert_profile_batch(batch) ==
  /\ profiles' = ProfileUpsertAllCoalesce(profiles, batch)
  /\ ret' = [op |-> "upsert_profile_batch",
             conflicts |-> Len(batch) - (Len(profiles') - Len(profiles)),
             value |-> Len(batch)]
  /\ UNCHANGED <<connections, graphVars>>

----------------------------------------------------------------------------
(* public.connections: UNIQUE(user_id, profile_id), profile_id REFERENCES  *)
(* profiles(id)                                                            *)

ConnectionPayloads ==
  [user_id : Users, profile_id : ProfileIds, connected_on : Dates]

\* the payloads an import builds: every row carries the importing user
ConnectionBatches ==
  {batch \in SeqsUpTo(ConnectionPayloads, MaxBatch) :
     \A i \in 1..Len(batch) : batch[i].user_id = batch[1].user_id}

PairExists(tbl, u, p) ==
  \E i \in 1..Len(tbl) : tbl[i].user_id = u /\ tbl[i].profile_id = p

ProfileIdExists(tbl, id) == \E i \in 1..Len(tbl) : tbl[i].id = id

ConnectionUpsertRow_AlwaysInsert(tbl, c) == Append(tbl, c)

\* INSERT ... ON CONFLICT (user_id, profile_id) DO UPDATE SET connected_on
ConnectionUpsertRow(tbl, c) ==
  IF PairExists(tbl, c.user_id, c.profile_id)
  THEN [i \in 1..Len(tbl) |->
          IF tbl[i].user_id = c.user_id /\ tbl[i].profile_id = c.profile_id
          THEN [tbl[i] EXCEPT !.connected_on = c.connected_on]
          ELSE tbl[i]]
  ELSE Append(tbl, c)

RECURSIVE ConnectionUpsertAll(_, _)
ConnectionUpsertAll(tbl, batch) ==
  IF batch = <<>> THEN tbl
  ELSE ConnectionUpsertAll(ConnectionUpsertRow(tbl, Head(batch)), Tail(batch))

ConnectionKey(c) == <<c.user_id, c.profile_id>>

PairConflicts(tbl, batch) ==
  Cardinality({i \in 1..Len(batch) :
                 PairExists(tbl, batch[i].user_id, batch[i].profile_id)})

createConnection(userId, profileId, connectedOn) ==
  LET c == [user_id |-> userId, profile_id |-> profileId,
            connected_on |-> connectedOn]
  IN /\ IF ~ProfileIdExists(profiles, profileId)
        THEN /\ connections' = connections
             /\ ret' = [op |-> "createConnection", conflicts |-> 0, value |-> 0]
        ELSE /\ connections' = ConnectionUpsertRow(connections, c)
             /\ ret' = [op |-> "createConnection",
                        conflicts |-> PairConflicts(connections, <<c>>),
                        value |-> 1]
     /\ Len(connections') <= MaxConnections
     /\ UNCHANGED <<profiles, graphVars>>

batchInsertConnections(batch) ==
  /\ IF \/ HasDuplicate([i \in 1..Len(batch) |-> ConnectionKey(batch[i])])
        \/ \E i \in 1..Len(batch) : ~ProfileIdExists(profiles, batch[i].profile_id)
     THEN /\ connections' = connections
          /\ ret' = [op |-> "batchInsertConnections", conflicts |-> 0, value |-> 0]
     ELSE /\ connections' = ConnectionUpsertAll(connections, batch)
          /\ ret' = [op |-> "batchInsertConnections",
                     conflicts |-> PairConflicts(connections, batch),
                     value |-> Len(batch)]
  /\ Len(connections') <= MaxConnections
  /\ UNCHANGED <<profiles, graphVars>>

----------------------------------------------------------------------------
(* public.gnn_nodes (node_id PRIMARY KEY) and public.gnn_node_profiles     *)
(* (PRIMARY KEY (node_id, profile_id, user_id), node_id REFERENCES         *)
(* gnn_nodes, profile_id REFERENCES profiles)                              *)

NodeId(profileId) == <<"profile", profileId>>
UserNodeId(userId) == <<"user", userId>>

NodeExists(tbl, nodeId) == \E i \in 1..Len(tbl) : tbl[i].node_id = nodeId

NodeRow(tbl, nodeId) == tbl[CHOOSE i \in 1..Len(tbl) : tbl[i].node_id = nodeId]

\* INSERT ... ON CONFLICT (node_id) DO UPDATE SET type, source_user_ids:
\* the stored array is replaced by the payload's one-element array
NodeUpsertRow(tbl, n) ==
  IF NodeExists(tbl, n.node_id)
  THEN [i \in 1..Len(tbl) |->
          IF tbl[i].node_id = n.node_id
          THEN [tbl[i] EXCEPT !.type = n.type, !.source_user_ids = n.source_user_ids]
          ELSE tbl[i]]
  ELSE Append(tbl, n)

\* INSERT ... ON CONFLICT (node_id, profile_id, user_id) DO NOTHING; the
\* insert fails when the profile row does not exist
MappingUpsertRow(tbl, m) ==
  IF \/ \E i \in 1..Len(tbl) : tbl[i] = m
     \/ ~ProfileIdExists(profiles, m.profile_id)
  THEN tbl
  ELSE Append(tbl, m)

ProfileNode(profileId, userId) ==
  [node_id |-> NodeId(profileId), type |-> "profile", source_user_ids |-> <<userId>>]

ProfileMapping(profileId, userId) ==
  [node_id |-> NodeId(profileId), profile_id |-> profileId, user_id |-> userId]

\* createNodeFromProfile up to its second await: the gnn_nodes upsert
createNodeFromProfile_node(profileId, userId) ==
  /\ <<profileId, userId>> \notin inflight
  /\ gnn_nodes' = NodeUpsertRow(gnn_nodes, ProfileNode(profileId, userId))
  /\ inflight' = inflight \cup {<<profileId, userId>>}
  /\ ret' = [op |-> "createNodeFromProfile_node", profile |-> profileId,
             user |-> userId]
  /\ UNCHANGED <<profiles, connections, gnn_node_profiles, gnn_edges,
                 gnn_predictions, comparison_sessions, comparison_results>>

\* createNodeFromProfile from its second await: the mapping upsert, then the
\* return of the node row the first statement selected
createNodeFromProfile_mapping(profileId, userId) ==
  /\ <<profileId, userId>> \in inflight
  /\ gnn_node_profiles' =
       MappingUpsertRow(gnn_node_profiles, ProfileMapping(profileId, userId))
  /\ inflight' = inflight \ {<<profileId, userId>>}
  /\ ret' = [op |-> "createNodeFromProfile", profile |-> profileId,
             user |-> userId]
  /\ UNCHANGED <<profiles, connections, gnn_nodes, gnn_edges,
                 gnn_predictions, comparison_sessions, comparison_results>>

----------------------------------------------------------------------------
(* Reads shared by the graph passes                                        *)

Truthy(v) == v # NULL /\ v # ""

ProfileById(id) == profiles[CHOOSE i \in 1..Len(profiles) : profiles[i].id = id]

\* from('connections').select('profile_id, profiles:profile_id (*)')
\*   .eq('user_id', userId), mapped to the joined profile rows
ConnectedProfiles(userId) ==
  LET cs == SelectSeq(connections, LAMBDA c : c.user_id = userId)
  IN [i \in 1..Len(cs) |-> ProfileById(cs[i].profile_id)]

ConnectedProfileIds(userId) ==
  {connections[i].profile_id :
     i \in {k \in 1..Len(connections) : connections[k].user_id = userId}}

\* keys of a Record<string, Profile[]> in the order they were first set
RECURSIVE GroupKeys(_, _)
GroupKeys(vals, seen) ==
  IF vals = <<>> THEN <<>>
  ELSE IF Truthy(Head(vals)) /\ Head(vals) \notin seen
       THEN <<Head(vals)>> \o GroupKeys(Tail(vals), seen \cup {Head(vals)})
       ELSE GroupKeys(Tail(vals), seen)

RECURSIVE Flatten(_)
Flatten(ss) == IF ss = <<>> THEN <<>> ELSE Head(ss) \o Flatten(Tail(ss))

\* the pairs (i, j) visited by  for i in 0..n-1  for j in i+1..n-1
RECURSIVE PairsFrom(_, _, _)
PairsFrom(i, j, n) ==
  IF i > n THEN <<>>
  ELSE IF j > n THEN PairsFrom(i + 1, i + 2, n)
  ELSE <<<<i, j>>>> \o PairsFrom(i, j + 1, n)

\* the inner loop starting at j = 0: both orders of every pair
PairSeq_BothOrders(n) ==
  LET all == PairsFrom(1, 2, n)
  IN all \o [k \in 1..Len(all) |-> <<all[k][2], all[k][1]>>]

PairSeq(n) == PairsFrom(1, 2, n)

\* profileToNodeMap: a later gnn_node_profiles row overwrites an earlier one
\* of the same profile_id; NULL stands for a missing key
ProfileToNode(profileId) ==
  LET rows == SelectSeq(gnn_node_profiles, LAMBDA np : np.profile_id = profileId)
  IN IF Len(rows) = 0 THEN NULL ELSE rows[Len(rows)].node_id

\* .eq('profile_id', id).single(): an error unless exactly one row matches
SingleNodeOf(profileId) ==
  LET rows == SelectSeq(gnn_node_profiles, LAMBDA np : np.profile_id = profileId)
  IN IF Len(rows) = 1 THEN rows[1].node_id ELSE NULL

----------------------------------------------------------------------------
(* public.gnn_edges (id BIGSERIAL PRIMARY KEY, source_id and target_id     *)
(* REFERENCES gnn_nodes; no other key) and createEdge                      *)

Rat(n, d) == [num |-> n, den |-> d]
RatEq(a, b) == a.num * b.den = b.num * a.den
RatLeq(a, b) == a.num * b.den <= b.num * a.den

Edge(s, t, ty, w, props) ==
  [source_id |-> s, target_id |-> t, edge_type |-> ty, weight |-> w,
   properties |-> props]

\* createEdge returns the row, or null when the insert fails
EdgeInsertable(e) ==
  NodeExists(gnn_nodes, e.source_id) /\ NodeExists(gnn_nodes, e.target_id)

\* the rows a pass adds: its createEdge calls that succeed, in call order
Created(es) == SelectSeq(es, EdgeInsertable)

----------------------------------------------------------------------------
(* createAffiliationEdges                                                  *)

AffiliationGroupEdges(profs, company) ==
  LET g == SelectSeq(profs, LAMBDA p : p.company = company)
      pairs == SelectSeq(PairSeq(Len(g)),
                 LAMBDA pr : /\ ProfileToNode(g[pr[1]].id) # NULL
                             /\ ProfileToNode(g[pr[2]].id) # NULL)
  IN IF Len(g) > 1
     THEN [k \in 1..Len(pairs) |->
             Edge(ProfileToNode(g[pairs[k][1]].id), ProfileToNode(g[pairs[k][2]].id),
                  "affiliation", Rat(1, 1), [company |-> company])]
     ELSE <<>>

AffiliationEdges(userId) ==
  LET profs == ConnectedProfiles(userId)
      keys == GroupKeys([i \in 1..Len(profs) |-> profs[i].company], {})
  IN Flatten([k \in 1..Len(keys) |-> AffiliationGroupEdges(profs, keys[k])])

createAffiliationEdges(userId) ==
  LET created == Created(AffiliationEdges(userId))
  IN /\ Len(gnn_edges) + Len(created) <= MaxEdges
     /\ gnn_edges' = gnn_edges \o created
     /\ ret' = [op |-> "createAffiliationEdges", user |-> userId,
                before |-> Len(gnn_edges), value |-> Len(created)]
     /\ UNCHANGED <<profiles, connections, gnn_nodes, gnn_node_profiles,
                    gnn_predictions, comparison_sessions, comparison_results,
                    inflight>>

----------------------------------------------------------------------------
(* createTitleSimilarityEdges                                              *)

\* String.prototype.toLowerCase, word by word
Lower(w) == IF w = "VP" THEN "vp" ELSE IF w = "Sales" THEN "sales" ELSE w

\* title?.toLowerCase() || '' then split(/\s+/): a title is stored as the
\* sequence of its words; NULL and the empty title give the empty string
TitleWords(title) ==
  IF title # NoTitle
  THEN [i \in 1..Len(title) |-> Lower(title[i])]
  ELSE <<>>

\* wordsA.filter(word => wordsB.includes(word)).length
CommonWords(wordsA, wordsB) ==
  Len(SelectSeq(wordsA, LAMBDA w : w \in Range(wordsB)))

\* new Set([...wordsA, ...wordsB]).size
UniqueWords(wordsA, wordsB) == Cardinality(Range(wordsA) \cup Range(wordsB))

Similarity(wordsA, wordsB) ==
  IF UniqueWords(wordsA, wordsB) > 0
  THEN Rat(CommonWords(wordsA, wordsB), UniqueWords(wordsA, wordsB))
  ELSE Rat(0, 1)

\* similarityThreshold: number = 0.7
DefaultThreshold == Rat(7, 10)

TitleGroupEdges(profs, jobFunction, threshold) ==
  LET g == SelectSeq(profs, LAMBDA p : p.job_function = jobFunction)
      Sim(pr) == Similarity(TitleWords(g[pr[1]].title), TitleWords(g[pr[2]].title))
      pairs == SelectSeq(PairSeq(Len(g)),
                 LAMBDA pr : /\ ProfileToNode(g[pr[1]].id) # NULL
                             /\ ProfileToNode(g[pr[2]].id) # NULL
                             /\ TitleWords(g[pr[1]].title) # <<>>
                             /\ TitleWords(g[pr[2]].title) # <<>>
                             /\ RatLeq(threshold, Sim(pr)))
  IN IF Len(g) > 1
     THEN [k \in 1..Len(pairs) |->
             Edge(ProfileToNode(g[pairs[k][1]].id), ProfileToNode(g[pairs[k][2]].id),
                  "title_similarity", Sim(pairs[k]), [similarity |-> Sim(pairs[k])])]
     ELSE <<>>

TitleSimilarityEdges(userId, threshold) ==
  LET profs == ConnectedProfiles(userId)
      keys == GroupKeys([i \in 1..Len(profs) |-> profs[i].job_function], {})
  IN Flatten([k \in 1..Len(keys) |-> TitleGroupEdges(profs, keys[k], threshold)])

createTitleSimilarityEdges(userId, similarityThreshold) ==
  LET created == Created(TitleSimilarityEdges(userId, similarityThreshold))
  IN /\ Len(gnn_edges) + Len(created) <= MaxEdges
     /\ gnn_edges' = gnn_edges \o created
     /\ ret' = [op |-> "createTitleSimilarityEdges", user |-> userId,
                threshold |-> similarityThreshold,
                before |-> Len(gnn_edges), value |-> Len(created)]
     /\ UNCHANGED <<profiles, connections, gnn_nodes, gnn_node_profiles,
                    gnn_predictions, comparison_sessions, comparison_results,
                    inflight>>

----------------------------------------------------------------------------
(* createMutualAppearanceEdges.  The two stored procedures it calls are    *)
(* not part of the sources; they are modelled from their description: the  *)
(* profiles connected to more than one user with those users, and the      *)
(* other profiles connected to any of these users with the number of them. *)

UsersOf(profileId) ==
  LET cs == SelectSeq(connections, LAMBDA c : c.profile_id = profileId)
  IN [i \in 1..Len(cs) |-> cs[i].user_id]

get_mutual_profiles ==
  LET ps == SelectSeq(profiles, LAMBDA p : Len(UsersOf(p.id)) > 1)
  IN [i \in 1..Len(ps) |-> [profile_id |-> ps[i].id, user_ids |-> UsersOf(ps[i].id)]]

SharedNetworks(user_ids, profileId) ==
  Cardinality({u \in Range(user_ids) : profileId \in ConnectedProfileIds(u)})

get_profiles_in_same_networks(user_ids, profileId) ==
  LET ps == SelectSeq(profiles,
              LAMBDA p : p.id # profileId /\ SharedNetworks(user_ids, p.id) > 0)
  IN [i \in 1..Len(ps) |->
        [profile_id |-> ps[i].id, shared_networks |-> SharedNetworks(user_ids, ps[i].id)]]

MutualEdgesOf(mutualProfile) ==
  LET source == SingleNodeOf(mutualProfile.profile_id)
      others == get_profiles_in_same_networks(mutualProfile.user_ids,
                                              mutualProfile.profile_id)
      found == SelectSeq(others, LAMBDA o : SingleNodeOf(o.profile_id) # NULL)
  IN IF source = NULL THEN <<>>
     ELSE [k \in 1..Len(found) |->
             Edge(source, SingleNodeOf(found[k].profile_id), "mutual",
                  Rat(found[k].shared_networks, Len(mutualProfile.user_ids)),
                  [shared_networks |-> found[k].shared_networks])]

MutualEdges ==
  Flatten([k \in 1..Len(get_mutual_profiles) |-> MutualEdgesOf(get_mutual_profiles[k])])

createMutualAppearanceEdges ==
  LET created == Created(MutualEdges)
  IN /\ Len(gnn_edges) + Len(created) <= MaxEdges
     /\ gnn_edges' = gnn_edges \o created
     /\ ret' = [op |-> "createMutualAppearanceEdges",
                before |-> Len(gnn_edges), value |-> Len(created)]
     /\ UNCHANGED <<profiles, connections, gnn_nodes, gnn_node_profiles,
                    gnn_predictions, comparison_sessions, comparison_results,
                    inflight>>

----------------------------------------------------------------------------
(* generatePredictions.  public.gnn_predictions: source_node_id and        *)
(* target_node_id REFERENCES gnn_nodes, score FLOAT NOT NULL.  Scores are   *)
(* kept as quotients over ScoreDen: 0.2 = 4/20, 0.15 = 3/20, 0.1 = 2/20.   *)

ScoreDen == 20
MutualWeight == 4
AffiliationWeight == 3
TitleSimilarityWeight == 2

\* .eq('edge_type', ty).or(source_id.eq.node, target_id.eq.node), count
EdgeCount(nodeId, ty) ==
  Cardinality({i \in 1..Len(gnn_edges) :
                 /\ gnn_edges[i].edge_type = ty
                 /\ (gnn_edges[i].source_id = nodeId \/ gnn_edges[i].target_id = nodeId)})

WeightedSum(m, a, t) ==
  m * MutualWeight + a * AffiliationWeight + t * TitleSimilarityWeight

\* the sum without Math.min
PredictionScore_Unclamped(m, a, t) == Rat(WeightedSum(m, a, t), ScoreDen)

\* score = Math.min(1, score)
PredictionScore(m, a, t) ==
  Rat(IF WeightedSum(m, a, t) < ScoreDen THEN WeightedSum(m, a, t) ELSE ScoreDen,
      ScoreDen)

\* .from('profiles').not('id', 'in', (connectedProfileIds)); an empty list
\* excludes no row
UnconnectedProfiles(userId) ==
  SelectSeq(profiles, LAMBDA p : p.id \notin ConnectedProfileIds(userId))

PredictionOf(userId, profile) ==
  LET node == SingleNodeOf(profile.id)
  IN [source_node_id |-> UserNodeId(userId), target_node_id |-> node,
      score |-> PredictionScore(EdgeCount(node, "mutual"),
                                EdgeCount(node, "affiliation"),
                                EdgeCount(node, "title_similarity"))]

PredictionInsertable(row) ==
  NodeExists(gnn_nodes, row.source_node_id) /\ NodeExists(gnn_nodes, row.target_node_id)

Predictions(userId) ==
  LET found == SelectSeq(UnconnectedProfiles(userId),
                         LAMBDA p : SingleNodeOf(p.id) # NULL)
      rows == [k \in 1..Len(found) |-> PredictionOf(userId, found[k])]
  IN SelectSeq(rows, PredictionInsertable)

generatePredictions(userId) ==
  /\ Len(gnn_predictions) <= MaxPriorPredictions
  /\ gnn_predictions' = gnn_predictions \o Predictions(userId)
  /\ ret' = [op |-> "generatePredictions", user |-> userId,
             before |-> Len(gnn_predictions), value |-> Len(Predictions(userId))]
  /\ UNCHANGED <<profiles, connections, gnn_nodes, gnn_node_profiles, gnn_edges,
                 comparison_sessions, comparison_results, inflight>>

----------------------------------------------------------------------------
(* compareNetworks.  Scores are quotients over ScoreDen: 0.3 = 6/20,       *)
(* 0.2 = 4/20, 0.1 = 2/20, 0.05 = 1/20.                                    *)

SameCompanyWeight == 6
SameJobFunctionWeight == 4
SameIndustryWeight == 4
SameRoleLevelWeight == 2
SharedSkillWeight == 1
MatchThreshold == 6

\* connectionsA.map(c => c.profile_id)
ProfileIdsOf(userId) ==
  LET cs == SelectSeq(connections, LAMBDA c : c.user_id = userId)
  IN [i \in 1..Len(cs) |-> cs[i].profile_id]

\* every id of A's list, nothing filtered
MutualProfileIds_All(idsA, idsB) == idsA

\* profileIdsA.filter(id => profileIdsB.includes(id))
MutualProfileIds(idsA, idsB) == SelectSeq(idsA, LAMBDA id : id \in Range(idsB))

MutualResults(sessionId, mutual) ==
  [k \in 1..Len(mutual) |->
     [session_id |-> sessionId, result_type |-> "mutual_connection",
      profile_a_id |-> mutual[k], profile_b_id |-> mutual[k],
      score |-> Rat(ScoreDen, ScoreDen), details |-> [type |-> "mutual_connection"]]]

\* a.x && b.x && a.x === b.x
SameTruthy(x, y) == Truthy(x) /\ Truthy(y) /\ x = y

\* profileA.skills.filter(skill => profileB.skills?.includes(skill))
SharedSkills(skillsA, skillsB) ==
  IF skillsA = NULL THEN NULL
  ELSE IF skillsB = NULL THEN <<>>
  ELSE SelectSeq(skillsA, LAMBDA sk : sk \in Range(skillsB))

MatchScore(a, b) ==
  (IF SameTruthy(a.company, b.company) THEN SameCompanyWeight ELSE 0)
  + (IF SameTruthy(a.job_function, b.job_function) THEN SameJobFunctionWeight ELSE 0)
  + (IF SameTruthy(a.industry, b.industry) THEN SameIndustryWeight ELSE 0)
  + (IF SameTruthy(a.role_level, b.role_level) THEN SameRoleLevelWeight ELSE 0)
  + (IF a.skills # NULL /\ b.skills # NULL
     THEN Len(SharedSkills(a.skills, b.skills)) * SharedSkillWeight ELSE 0)

PredictedMatch(sessionId, a, b) ==
  [session_id |-> sessionId, result_type |-> "predicted_match",
   profile_a_id |-> a.id, profile_b_id |-> b.id,
   score |-> Rat(MatchScore(a, b), ScoreDen),
   details |-> [type |-> "predicted_match",
                factors |-> [same_company |-> a.company = b.company,
                             same_job_function |-> a.job_function = b.job_function,
                             same_industry |-> a.industry = b.industry,
                             same_role_level |-> a.role_level = b.role_level,
                             shared_skills |-> SharedSkills(a.skills, b.skills)]]]

\* the two nested loops over the ids of A and of B, mutual ids skipped
PredictedResults(sessionId, idsA, idsB, mutual) ==
  LET as == SelectSeq(idsA, LAMBDA id : id \notin Range(mutual))
      bs == SelectSeq(idsB, LAMBDA id : id \notin Range(mutual))
      RowOf(idA) ==
        LET hits == SelectSeq(bs, LAMBDA idB :
                      MatchScore(ProfileById(idA), ProfileById(idB)) >= MatchThreshold)
        IN [k \in 1..Len(hits) |->
              PredictedMatch(sessionId, ProfileById(idA), ProfileById(hits[k]))]
  IN Flatten([k \in 1..Len(as) |-> RowOf(as[k])])

\* the tags of a user's connected profiles, each once, in first-seen order
RECURSIVE Distinct(_, _)
Distinct(vals, seen) ==
  IF vals = <<>> THEN <<>>
  ELSE IF Head(vals) \notin seen
       THEN <<Head(vals)>> \o Distinct(Tail(vals), seen \cup {Head(vals)})
       ELSE Distinct(Tail(vals), seen)

TagsOf(userId) ==
  LET ps == SelectSeq(ConnectedProfiles(userId), LAMBDA p : p.tags # NULL)
  IN Distinct(Flatten([k \in 1..Len(ps) |-> ps[k].tags]), {})

TagResults(sessionId, tagsA, tagsB) ==
  LET overlapping == SelectSeq(tagsA, LAMBDA tag : tag \in Range(tagsB))
  IN [k \in 1..Len(overlapping) |->
        [session_id |-> sessionId, result_type |-> "overlapping_tag",
         profile_a_id |-> NULL, profile_b_id |-> NULL,
         score |-> Rat(ScoreDen, ScoreDen),
         details |-> [type |-> "overlapping_tag", tag |-> overlapping[k]]]]

\* the update without its completed_at
CompleteSession_NoTimestamp(tbl, sessionId) ==
  [i \in 1..Len(tbl) |->
     IF tbl[i].id = sessionId THEN [tbl[i] EXCEPT !.status = "completed"] ELSE tbl[i]]

\* .update({status: 'completed', completed_at: now}).eq('id', session.id)
CompleteSession(tbl, sessionId) ==
  [i \in 1..Len(tbl) |->
     IF tbl[i].id = sessionId
     THEN [tbl[i] EXCEPT !.status = "completed", !.completed_at = "now"]
     ELSE tbl[i]]

compareNetworks(userAId, userBId) ==
  LET sessionId == Len(comparison_sessions) + 1
      idsA == ProfileIdsOf(userAId)
      idsB == ProfileIdsOf(userBId)
      mutual == MutualProfileIds(idsA, idsB)
  IN /\ Len(comparison_sessions) < MaxSessions
     /\ comparison_sessions' =
          CompleteSession(
            Append(comparison_sessions,
                   [id |-> sessionId, user_a_id |-> userAId, user_b_id |-> userBId,
                    status |-> "pending", completed_at |-> NULL]),
            sessionId)
     /\ comparison_results' =
          comparison_results
          \o MutualResults(sessionId, mutual)
          \o PredictedResults(sessionId, idsA, idsB, mutual)
          \o TagResults(sessionId, TagsOf(userAId), TagsOf(userBId))
     /\ ret' = [op |-> "compareNetworks", a |-> userAId, b |-> userBId,
                value |-> sessionId]
     /\ UNCHANGED <<profiles, connections, gnn_nodes, gnn_node_profiles, gnn_edges,
                    gnn_predictions, inflight>>

----------------------------------------------------------------------------
(* compareNetworks statement by statement: a run suspended at an await is  *)
(* a record of inflight holding its arguments, its session and the         *)
(* statement it resumes at.                                                *)

CompareRun(sessionId, userAId, userBId, pc) ==
  [op |-> "compareNetworks", session |-> sessionId, a |-> userAId, b |-> userBId,
   pc |-> pc]

Resume(run, pc) == (inflight \ {run}) \cup {[run EXCEPT !.pc = pc]}

\* .insert({user_a_id, user_b_id, status: 'pending'}).select().single()
compareNetworks_session(userAId, userBId) ==
  LET sessionId == Len(comparison_sessions) + 1
  IN /\ Len(comparison_sessions) < MaxSessions
     /\ comparison_sessions' =
          Append(comparison_sessions,
                 [id |-> sessionId, user_a_id |-> userAId, user_b_id |-> userBId,
                  status |-> "pending", completed_at |-> NULL])
     /\ inflight' = inflight \cup {CompareRun(sessionId, userAId, userBId, "connections")}
     /\ ret' = [op |-> "compareNetworks_session", a |-> userAId, b |-> userBId,
                value |-> sessionId]
     /\ UNCHANGED <<profiles, connections, gnn_nodes, gnn_node_profiles, gnn_edges,
                    gnn_predictions, comparison_results>>

\* the two connections queries answered
compareNetworks_connections(run) ==
  /\ run \in inflight /\ run.pc = "connections"
  /\ inflight' = Resume(run, "mutual")
  /\ ret' = [op |-> "compareNetworks_connections", a |-> run.a, b |-> run.b,
             value |-> run.session]
  /\ UNCHANGED <<profiles, connections, gnn_nodes, gnn_node_profiles, gnn_edges,
                 gnn_predictions, comparison_sessions, comparison_results>>

\* a connections query answered with an error: return null
compareNetworks_connectionsError(run) ==
  /\ run \in inflight /\ run.pc = "connections"
  /\ inflight' = inflight \ {run}
  /\ ret' = [op |-> "compareNetworks", a |-> run.a, b |-> run.b, value |-> NULL,
             session |-> run.session]
  /\ UNCHANGED <<profiles, connections, gnn_nodes, gnn_node_profiles, gnn_edges,
                 gnn_predictions, comparison_sessions, comparison_results>>

\* the inserts of the mutual connections
compareNetworks_mutual(run) ==
  /\ run \in inflight /\ run.pc = "mutual"
  /\ comparison_results' =
       comparison_results
       \o MutualResults(run.session,
                        MutualProfileIds(ProfileIdsOf(run.a), ProfileIdsOf(run.b)))
  /\ inflight' = Resume(run, "predicted")
  /\ ret' = [op |-> "compareNetworks_mutual", a |-> run.a, b |-> run.b,
             value |-> run.session]
  /\ UNCHANGED <<profiles, connections, gnn_nodes, gnn_node_profiles, gnn_edges,
                 gnn_predictions, comparison_sessions>>

\* the inserts of the predicted matches
compareNetworks_predicted(run) ==
  LET idsA == ProfileIdsOf(run.a)
      idsB == ProfileIdsOf(run.b)
  IN /\ run \in inflight /\ run.pc = "predicted"
     /\ comparison_results' =
          comparison_results
          \o PredictedResults(run.session, idsA, idsB, MutualProfileIds(idsA, idsB))
     /\ inflight' = Resume(run, "tags")
     /\ ret' = [op |-> "compareNetworks_predicted", a |-> run.a, b |-> run.b,
                value |-> run.session]
     /\ UNCHANGED <<profiles, connections, gnn_nodes, gnn_node_profiles, gnn_edges,
                    gnn_predictions, comparison_sessions>>

\* the inserts of the overlapping tags
compareNetworks_tags(run) ==
  /\ run \in inflight /\ run.pc = "tags"
  /\ comparison_results' =
       comparison_results \o TagResults(run.session, TagsOf(run.a), TagsOf(run.b))
  /\ inflight' = Resume(run, "update")
  /\ ret' = [op |-> "compareNetworks_tags", a |-> run.a, b |-> run.b,
             value |-> run.session]
  /\ UNCHANGED <<profiles, connections, gnn_nodes, gnn_node_profiles, gnn_edges,
                 gnn_predictions, comparison_sessions>>

\* the status update, then return session.id
compareNetworks_update(run) ==
  /\ run \in inflight /\ run.pc = "update"
  /\ comparison_sessions' = CompleteSession(comparison_sessions, run.session)
  /\ inflight' = inflight \ {run}
  /\ ret' = [op |-> "compareNetworks", a |-> run.a, b |-> run.b,
             value |-> run.session]
  /\ UNCHANGED <<profiles, connections, gnn_nodes, gnn_node_profiles, gnn_edges,
                 gnn_predictions, comparison_results>>

\* the rows a run inserts at one of its three loops
StageRows(run) ==
  LET idsA == ProfileIdsOf(run.a)
      idsB == ProfileIdsOf(run.b)
  IN IF run.pc = "mutual"
     THEN MutualResults(run.session, MutualProfileIds(idsA, idsB))
     ELSE IF run.pc = "predicted"
     THEN PredictedResults(run.session, idsA, idsB, MutualProfileIds(idsA, idsB))
     ELSE TagResults(run.session, TagsOf(run.a), TagsOf(run.b))

AfterStage(pc) ==
  IF pc = "mutual" THEN "predicted" ELSE IF pc = "predicted" THEN "tags" ELSE "update"

\* a loop of inserts of which the first n succeed and the others are
\* answered with an error: the result of await supabase...insert(...) is
\* not looked at, the run goes on
compareNetworks_insertError(run, n) ==
  /\ run \in inflight /\ run.pc \in {"mutual", "predicted", "tags"}
  /\ n < Len(StageRows(run))
  /\ comparison_results' = comparison_results \o SubSeq(StageRows(run), 1, n)
  /\ inflight' = Resume(run, AfterStage(run.pc))
  /\ ret' = [op |-> "compareNetworks_insertError", a |-> run.a, b |-> run.b,
             value |-> run.session]
  /\ UNCHANGED <<profiles, connections, gnn_nodes, gnn_node_profiles, gnn_edges,
                 gnn_predictions, comparison_sessions>>

\* the status update answered with an error, which is not looked at
\* either: return session.id
compareNetworks_updateError(run) ==
  /\ run \in inflight /\ run.pc = "update"
  /\ inflight' = inflight \ {run}
  /\ ret' = [op |-> "compareNetworks", a |-> run.a, b |-> run.b,
             value |-> run.session]
  /\ UNCHANGED <<profiles, connections, gnn_nodes, gnn_node_profiles, gnn_edges,
                 gnn_predictions, comparison_sessions, comparison_results>>

----------------------------------------------------------------------------
(* parseConnectionDate.  A date string is the sequence of its tokens: a    *)
(* run of digits (its value n and its width w), a run of letters (c and    *)
(* its length w) or one other character c.  An instant is a number of      *)
(* seconds since 1970-01-01T00:00:00Z; Invalid is the invalid Date.        *)

Num(n, w) == [k |-> "num", n |-> n, w |-> w, c |-> ""]
Word(c, w) == [k |-> "word", n |-> 0, w |-> w, c |-> c]
Sep(c) == [k |-> "sep", n |-> 0, w |-> 1, c |-> c]

Invalid == -1

\* String.prototype.includes of one character
Includes(str, c) == \E i \in 1..Len(str) : str[i] = Sep(c)

\* String.prototype.split on one character
RECURSIVE Split(_, _)
Split(str, c) ==
  IF ~Includes(str, c) THEN <<str>>
  ELSE LET i == CHOOSE j \in 1..Len(str) :
                  str[j] = Sep(c) /\ \A h \in 1..(j - 1) : str[h] # Sep(c)
       IN <<SubSeq(str, 1, i - 1)>> \o Split(SubSeq(str, i + 1, Len(str)), c)

\* `${year}-${month}-${day}`
Dashed(year, month, day) == year \o <<Sep("-")>> \o month \o <<Sep("-")>> \o day

IsLeap(y) == (y % 4 = 0 /\ y % 100 # 0) \/ y % 400 = 0

DaysInMonth(y, m) ==
  IF m = 2 THEN (IF IsLeap(y) THEN 29 ELSE 28)
  ELSE IF m \in {4, 6, 9, 11} THEN 30 ELSE 31

\* days from 1970-01-01 to the civil date y-m-d
DaysFromCivil(y, m, d) ==
  LET yy == IF m <= 2 THEN y - 1 ELSE y
      era == yy \div 400
      yoe == yy - era * 400
      mp == IF m > 2 THEN m - 3 ELSE m + 9
      doy == (153 * mp + 2) \div 5 + d - 1
      doe == yoe * 365 + yoe \div 4 - yoe \div 100 + doy
  IN era * 146097 + doe - 719468

\* the civil date of a day number
CivilFromDays(z) ==
  LET zz == z + 719468
      era == zz \div 146097
      doe == zz - era * 146097
      yoe == (doe - doe \div 1460 + doe \div 36524 - doe \div 146096) \div 365
      doy == doe - (365 * yoe + yoe \div 4 - yoe \div 100)
      mp == (5 * doy + 2) \div 153
      d == doy - (153 * mp + 2) \div 5 + 1
      m == IF mp < 10 THEN mp + 3 ELSE mp - 9
      y == yoe + era * 400 + (IF m <= 2 THEN 1 ELSE 0)
  IN [y |-> y, m |-> m, d |-> d]

ValidDate(y, m, d) == m \in 1..12 /\ d \in 1..DaysInMonth(y, m)

ValidTime(h, mi, sec) == h \in 0..23 /\ mi \in 0..59 /\ sec \in 0..59

UtcInstant(y, m, d, h, mi, sec) ==
  DaysFromCivil(y, m, d) * 86400 + h * 3600 + mi * 60 + sec

MonthNames == <<"Jan", "Feb", "Mar", "Apr", "May", "Jun",
                "Jul", "Aug", "Sep", "Oct", "Nov", "Dec">>

IsNum(tok) == tok.k = "num"

\* yyyy-mm-dd, every field of full width
IsIsoDate(str) ==
  /\ Len(str) = 5
  /\ IsNum(str[1]) /\ str[1].w = 4 /\ str[2] = Sep("-")
  /\ IsNum(str[3]) /\ str[3].w = 2 /\ str[4] = Sep("-")
  /\ IsNum(str[5]) /\ str[5].w = 2

\* y-m-d with a field that is not of full width
IsLooseDate(str) ==
  /\ Len(str) = 5
  /\ IsNum(str[1]) /\ str[2] = Sep("-") /\ IsNum(str[3]) /\ str[4] = Sep("-")
  /\ IsNum(str[5])
  /\ ~IsIsoDate(str)

\* hh:mm:ss at position i
IsClock(str, i) ==
  /\ Len(str) >= i + 4
  /\ IsNum(str[i]) /\ str[i].w = 2 /\ str[i + 1] = Sep(":")
  /\ IsNum(str[i + 2]) /\ str[i + 2].w = 2 /\ str[i + 3] = Sep(":")
  /\ IsNum(str[i + 4]) /\ str[i + 4].w = 2

\* yyyy-mm-ddThh:mm:ss.sssZ
IsIsoInstant(str) ==
  /\ Len(str) = 14
  /\ IsIsoDate(SubSeq(str, 1, 5)) /\ str[6] = Word("T", 1) /\ IsClock(str, 7)
  /\ str[12] = Sep(".") /\ IsNum(str[13]) /\ str[13].w = 3
  /\ str[14] = Word("Z", 1)

\* yyyy-mm-ddThh:mm:ss UTC
IsIsoWithUtc(str) ==
  /\ Len(str) = 13
  /\ IsIsoDate(SubSeq(str, 1, 5)) /\ str[6] = Word("T", 1) /\ IsClock(str, 7)
  /\ str[12] = Sep(" ") /\ str[13] = Word("UTC", 3)

\* dd Mon yyyy
IsDayMonthYear(str) ==
  /\ Len(str) = 5
  /\ IsNum(str[1]) /\ str[1].w <= 2 /\ str[2] = Sep(" ")
  /\ \E m \in 1..12 : str[3] = Word(MonthNames[m], 3)
  /\ str[4] = Sep(" ") /\ IsNum(str[5]) /\ str[5].w = 4

MonthOf(tok) == CHOOSE m \in 1..12 : tok = Word(MonthNames[m], 3)

DateEngines == {"lenient", "strict"}

\* new Date(str).getTime(): the two ISO formats everywhere; the other
\* formats are left to the engine, which reads them (a date without a zone
\* as local time, tz minutes east of UTC) or rejects them
DateParse(str, tz, engine) ==
  IF IsIsoDate(str) THEN
    IF ValidDate(str[1].n, str[3].n, str[5].n)
    THEN UtcInstant(str[1].n, str[3].n, str[5].n, 0, 0, 0)
    ELSE Invalid
  ELSE IF IsIsoInstant(str) THEN
    IF ValidDate(str[1].n, str[3].n, str[5].n) /\ ValidTime(str[7].n, str[9].n, str[11].n)
    THEN UtcInstant(str[1].n, str[3].n, str[5].n, str[7].n, str[9].n, str[11].n)
    ELSE Invalid
  ELSE IF IsDayMonthYear(str) THEN
    IF ValidDate(str[5].n, MonthOf(str[3]), str[1].n)
    THEN UtcInstant(str[5].n, MonthOf(str[3]), str[1].n, 0, 0, 0) - tz * 60
    ELSE Invalid
  ELSE IF IsLooseDate(str) /\ engine = "lenient" THEN
    IF ValidDate(str[1].n, str[3].n, str[5].n)
    THEN UtcInstant(str[1].n, str[3].n, str[5].n, 0, 0, 0) - tz * 60
    ELSE Invalid
  ELSE IF IsIsoWithUtc(str) /\ engine = "lenient" THEN
    IF ValidDate(str[1].n, str[3].n, str[5].n) /\ ValidTime(str[7].n, str[9].n, str[11].n)
    THEN UtcInstant(str[1].n, str[3].n, str[5].n, str[7].n, str[9].n, str[11].n)
    ELSE Invalid
  ELSE Invalid

\* Date.prototype.toISOString without its zone designator
toISOString_NoZone(t) ==
  LET date == CivilFromDays(t \div 86400)
      sec == t % 86400
  IN <<Num(date.y, 4), Sep("-"), Num(date.m, 2), Sep("-"), Num(date.d, 2),
       Word("T", 1), Num(sec \div 3600, 2), Sep(":"), Num((sec % 3600) \div 60, 2),
       Sep(":"), Num(sec % 60, 2), Sep("."), Num(0, 3)>>

\* Date.prototype.toISOString of a valid date
toISOString(t) ==
  LET date == CivilFromDays(t \div 86400)
      sec == t % 86400
  IN <<Num(date.y, 4), Sep("-"), Num(date.m, 2), Sep("-"), Num(date.d, 2),
       Word("T", 1), Num(sec \div 3600, 2), Sep(":"), Num((sec % 3600) \div 60, 2),
       Sep(":"), Num(sec % 60, 2), Sep("."), Num(0, 3), Word("Z", 1)>>

\* /\d{1,2}\s[A-Za-z]{3}\s\d{4}/
MatchesDayMonthYear(str) ==
  \E i \in 1..Len(str) :
    /\ i + 4 <= Len(str)
    /\ IsNum(str[i]) /\ str[i + 1] = Sep(" ")
    /\ str[i + 2].k = "word" /\ str[i + 2].w >= 3
    /\ str[i + 3] = Sep(" ")
    /\ IsNum(str[i + 4]) /\ str[i + 4].w >= 4

\* /\d{1,2}\/\d{1,2}\/\d{2}\s\d{1,2}:\d{2}\s[AP]M/
MatchesShortDateTime(str) ==
  \E i \in 1..Len(str) :
    /\ i + 10 <= Len(str)
    /\ IsNum(str[i]) /\ str[i + 1] = Sep("/")
    /\ IsNum(str[i + 2]) /\ str[i + 2].w <= 2 /\ str[i + 3] = Sep("/")
    /\ IsNum(str[i + 4]) /\ str[i + 4].w = 2 /\ str[i + 5] = Sep(" ")
    /\ IsNum(str[i + 6]) /\ str[i + 6].w <= 2 /\ str[i + 7] = Sep(":")
    /\ IsNum(str[i + 8]) /\ str[i + 8].w >= 2 /\ str[i + 9] = Sep(" ")
    /\ str[i + 10] \in {Word("AM", 2), Word("PM", 2)}

\* `${year}-${month}-${day} ${timeStr}` of the first match of
\* /(\d{1,2})\/(\d{1,2})\/(\d{2})\s(.*)/ with year = `20${shortYear}`
ShortDateTimeText(str) ==
  LET i == CHOOSE j \in 1..Len(str) :
             /\ j + 5 <= Len(str)
             /\ IsNum(str[j]) /\ str[j + 1] = Sep("/")
             /\ IsNum(str[j + 2]) /\ str[j + 2].w <= 2 /\ str[j + 3] = Sep("/")
             /\ IsNum(str[j + 4]) /\ str[j + 4].w >= 2 /\ str[j + 5] = Sep(" ")
  IN Dashed(<<Num(2000 + str[i + 4].n, 4)>>, <<str[i]>>, <<str[i + 2]>>)
     \o <<Sep(" ")>> \o SubSeq(str, i + 6, Len(str))

\* new Date(text).toISOString(): a RangeError for the invalid Date, which
\* the catch turns into the final return of the current time
IsoOrNow(text, now, tz, engine) ==
  IF DateParse(text, tz, engine) # Invalid
  THEN toISOString(DateParse(text, tz, engine))
  ELSE toISOString(now)

parseConnectionDateOf(dateStr, now, tz, engine) ==
  IF dateStr = <<>> THEN toISOString(now)
  ELSE IF Includes(dateStr, "/") /\ Len(Split(dateStr, "/")) = 3 THEN
    LET parts == Split(dateStr, "/")
    IN IsoOrNow(Dashed(parts[3], parts[1], parts[2]), now, tz, engine)
  ELSE IF MatchesDayMonthYear(dateStr) THEN IsoOrNow(dateStr, now, tz, engine)
  ELSE IF Includes(dateStr, "-") /\ Includes(dateStr, ":") THEN
    IsoOrNow(dateStr, now, tz, engine)
  ELSE IF MatchesShortDateTime(dateStr) THEN
    IsoOrNow(ShortDateTimeText(dateStr), now, tz, engine)
  ELSE IsoOrNow(dateStr, now, tz, engine)

\* minutes east of UTC
TimeZones == {-300, 0, 60}

\* 2025-06-01T12:00:00Z
ImportTime == UtcInstant(2025, 6, 1, 12, 0, 0)

\* one call; the clock has moved on by some seconds since the last one
parseConnectionDate(dateStr, elapsed) ==
  /\ ret.op \in {"dateStr", "parseConnectionDate"}
  /\ ret.calls < MaxCalls
  /\ ret' = [ret EXCEPT !.op = "parseConnectionDate",
                        !.calls = @ + 1,
                        !.now = @ + elapsed,
                        !.input = dateStr,
                        !.value = parseConnectionDateOf(dateStr, ret.now + elapsed,
                                                        ret.tz, ret.engine)]
  /\ UNCHANGED <<profiles, connections, gnn_nodes, gnn_node_profiles, gnn_edges,
                 gnn_predictions, comparison_sessions, comparison_results, inflight>>

----------------------------------------------------------------------------
(* The export parsers.  A cell of a CSV line is the sequence of its words, *)
(* the empty cell <<>>; a contact is a record of cells, a missing field    *)
(* <<>>; a Record<string, contact> is the sequence of its contacts in      *)
(* insertion order, each with its key.                                     *)

BlankContact ==
  [key |-> <<>>, first |-> <<>>, last |-> <<>>, url |-> <<>>, email |-> <<>>,
   emails |-> <<>>, phones |-> <<>>, company |-> <<>>, position |-> <<>>,
   invStatus |-> <<>>, invSentAt |-> <<>>, invMessage |-> <<>>,
   msgDate |-> <<>>, msgContent |-> <<>>, source |-> <<>>, connectedOn |-> <<>>]

\* the hard-coded name of the account owner
OwnerName == <<"Ian", "Tyndall">>

MapHas(map, key) == \E i \in 1..Len(map) : map[i].key = key

MapGet(map, key) == map[CHOOSE i \in 1..Len(map) : map[i].key = key]

\* map[key] = rec: a new key goes last, a known key keeps its place
MapPut(map, key, rec) ==
  IF MapHas(map, key)
  THEN [i \in 1..Len(map) |->
          IF map[i].key = key THEN [rec EXCEPT !.key = key] ELSE map[i]]
  ELSE Append(map, [rec EXCEPT !.key = key])

\* headers.findIndex(h => h === name), from 1; 0 when there is none
HeaderIndex(headers, name) ==
  IF \E i \in 1..Len(headers) : headers[i] = name
  THEN CHOOSE i \in 1..Len(headers) :
         headers[i] = name /\ \A j \in 1..(i - 1) : headers[j] # name
  ELSE 0

\* line.match(/(".*?"|[^",]+)(?=\s*,|\s*$)/g): the cells of an unquoted
\* line that are not empty, moved up over the empty ones
CleanValues(line) == SelectSeq(line, LAMBDA cell : cell # <<>>)

\* index >= 0 ? cleanValues[index] : '' (undefined past the end)
CellAt(cleanValues, index) ==
  IF index >= 1 /\ index <= Len(cleanValues) THEN cleanValues[index] ELSE <<>>

\* parseCSV: a line is the record of its cells by header; it is kept when
\* it has a first and a last name
parseCSV(lines) ==
  LET kept == SelectSeq(lines, LAMBDA l : l.first # <<>> /\ l.last # <<>>)
  IN [i \in 1..Len(kept) |->
        [BlankContact EXCEPT !.first = kept[i].first, !.last = kept[i].last,
                             !.url = kept[i].url, !.email = kept[i].email,
                             !.company = kept[i].company,
                             !.position = kept[i].position,
                             !.connectedOn = kept[i].connectedOn]]

ContactsHeaders ==
  <<"FirstName", "LastName", "Companies", "Title", "Emails", "PhoneNumbers">>

\* one line of Contacts.csv
ContactsLine(contactsMap, line) ==
  LET v == CleanValues(line)
      firstName == CellAt(v, HeaderIndex(ContactsHeaders, "FirstName"))
      lastName == CellAt(v, HeaderIndex(ContactsHeaders, "LastName"))
      emails == CellAt(v, HeaderIndex(ContactsHeaders, "Emails"))
      phones == CellAt(v, HeaderIndex(ContactsHeaders, "PhoneNumbers"))
      company == CellAt(v, HeaderIndex(ContactsHeaders, "Companies"))
      title == CellAt(v, HeaderIndex(ContactsHeaders, "Title"))
      fullName == firstName \o lastName
      created == IF MapHas(contactsMap, fullName) THEN MapGet(contactsMap, fullName)
                 ELSE [BlankContact EXCEPT !.first = firstName, !.last = lastName]
      withEmails == IF emails # <<>>
                    THEN [created EXCEPT
                            !.emails = emails,
                            !.email = IF created.email = <<>> THEN <<emails[1]>> ELSE @]
                    ELSE created
      withPhones == IF phones # <<>> THEN [withEmails EXCEPT !.phones = phones]
                    ELSE withEmails
      withCompany == IF company # <<>> /\ company # <<"null">>
                     THEN [withPhones EXCEPT !.company = company] ELSE withPhones
      withTitle == IF title # <<>> /\ title # <<"null">>
                   THEN [withCompany EXCEPT !.position = title] ELSE withCompany
  IN IF Len(v) <= 1 \/ firstName = <<>> \/ lastName = <<>> THEN contactsMap
     ELSE MapPut(contactsMap, fullName, withTitle)

RECURSIVE ContactsLines(_, _)
ContactsLines(contactsMap, lines) ==
  IF lines = <<>> THEN contactsMap
  ELSE ContactsLines(ContactsLine(contactsMap, Head(lines)), Tail(lines))

parseContactsCSV(lines) == ContactsLines(<<>>, lines)

InvitationsHeaders ==
  <<"From", "To", "Sent At", "Message", "Direction",
    "inviterProfileUrl", "inviteeProfileUrl">>

\* one line of Invitations.csv
InvitationsLine(contactsMap, line) ==
  LET v == CleanValues(line)
      direction == CellAt(v, HeaderIndex(InvitationsHeaders, "Direction"))
      outgoing == direction = <<"OUTGOING">>
      incoming == direction = <<"INCOMING">>
      contactName == IF outgoing THEN CellAt(v, HeaderIndex(InvitationsHeaders, "To"))
                     ELSE CellAt(v, HeaderIndex(InvitationsHeaders, "From"))
      profileUrl ==
        IF outgoing THEN CellAt(v, HeaderIndex(InvitationsHeaders, "inviteeProfileUrl"))
        ELSE CellAt(v, HeaderIndex(InvitationsHeaders, "inviterProfileUrl"))
      sentAt == CellAt(v, HeaderIndex(InvitationsHeaders, "Sent At"))
      message == CellAt(v, HeaderIndex(InvitationsHeaders, "Message"))
      created == IF MapHas(contactsMap, contactName) THEN MapGet(contactsMap, contactName)
                 ELSE [BlankContact EXCEPT !.first = <<Head(contactName)>>,
                                           !.last = Tail(contactName),
                                           !.url = profileUrl,
                                           !.source = <<"invitation">>]
      detailed == [created EXCEPT
                     !.invStatus = direction,
                     !.invSentAt = sentAt,
                     !.invMessage = IF message # <<>> THEN message ELSE @]
  IN IF Len(v) <= 1 \/ ~(outgoing \/ incoming) \/ contactName = OwnerName
        \/ contactName = <<>>
     THEN contactsMap
     ELSE MapPut(contactsMap, contactName, detailed)

RECURSIVE InvitationsLines(_, _)
InvitationsLines(contactsMap, lines) ==
  IF lines = <<>> THEN contactsMap
  ELSE InvitationsLines(InvitationsLine(contactsMap, Head(lines)), Tail(lines))

parseInvitationsCSV(lines) == InvitationsLines(<<>>, lines)

MessagesHeaders ==
  <<"FROM", "TO", "DATE", "CONTENT", "SENDER PROFILE URL", "RECIPIENT PROFILE URLS">>

\* the dates of the messages, oldest first: date > last, as strings
MessageDates == <<"2024-01-15", "2025-04-06">>

Later(date, last) ==
  \E i, j \in 1..Len(MessageDates) :
    <<MessageDates[i]>> = date /\ <<MessageDates[j]>> = last /\ i > j

\* one line of messages.csv
MessagesLine(contactsMap, line) ==
  LET v == CleanValues(line)
      from == CellAt(v, HeaderIndex(MessagesHeaders, "FROM"))
      to == CellAt(v, HeaderIndex(MessagesHeaders, "TO"))
      isUserSender == from = OwnerName
      contactName == IF isUserSender THEN to ELSE from
      profileUrl ==
        IF isUserSender
        THEN CellAt(v, HeaderIndex(MessagesHeaders, "RECIPIENT PROFILE URLS"))
        ELSE CellAt(v, HeaderIndex(MessagesHeaders, "SENDER PROFILE URL"))
      date == CellAt(v, HeaderIndex(MessagesHeaders, "DATE"))
      content == CellAt(v, HeaderIndex(MessagesHeaders, "CONTENT"))
      created == IF MapHas(contactsMap, contactName) THEN MapGet(contactsMap, contactName)
                 ELSE [BlankContact EXCEPT !.first = <<Head(contactName)>>,
                                           !.last = Tail(contactName),
                                           !.url = profileUrl,
                                           !.source = <<"message">>]
      dated == IF date # <<>> /\ (created.msgDate = <<>> \/ Later(date, created.msgDate))
               THEN [created EXCEPT !.msgDate = date, !.msgContent = content]
               ELSE created
  IN IF Len(v) <= 1 \/ from = <<>> \/ to = <<>> \/ contactName = OwnerName
     THEN contactsMap
     ELSE MapPut(contactsMap, contactName, dated)

RECURSIVE MessagesLines(_, _)
MessagesLines(contactsMap, lines) ==
  IF lines = <<>> THEN contactsMap
  ELSE MessagesLines(MessagesLine(contactsMap, Head(lines)), Tail(lines))

parseMessagesCSV(lines) == MessagesLines(<<>>, lines)

----------------------------------------------------------------------------
(* processCSVFile and processZIPFile.  A file is its name, the kind of     *)
(* export its header row belongs to, its lines after the header, and       *)
(* whether its content can be read.                                        *)

FileKinds == <<"connections", "contacts", "invitations", "messages">>

\* the kinds whose file-name pattern the name matches
NameKind(name) ==
  IF name \in {"Connections.csv", "backup/Connections.csv"} THEN "connections"
  ELSE IF name \in {"Contacts.csv", "backup/Contacts.csv"} THEN "contacts"
  ELSE IF name \in {"Invitations.csv", "backup/Invitations.csv"} THEN "invitations"
  ELSE IF name \in {"messages.csv", "backup/messages.csv"} THEN "messages"
  ELSE "none"

\* zip.file(pattern)[0]: the first entry of the archive the pattern matches
FilesOf(archive, kind) == SelectSeq(archive, LAMBDA f : NameKind(f.name) = kind)

FirstFile(archive, kind) == FilesOf(archive, kind)[1]

\* contacts.forEach: contactsMap[fullName] = contact, Source 'connection'
RECURSIVE PutConnections(_, _)
PutConnections(contactsMap, contacts) ==
  IF contacts = <<>> THEN contactsMap
  ELSE PutConnections(
         MapPut(contactsMap, Head(contacts).first \o Head(contacts).last,
                [Head(contacts) EXCEPT !.source = <<"connection">>]),
         Tail(contacts))

\* Object.entries(parsed).forEach: contactsMap[fullName] = contactInfo with
\* its Source replaced
RECURSIVE PutAll(_, _, _)
PutAll(contactsMap, parsed, source) ==
  IF parsed = <<>> THEN contactsMap
  ELSE PutAll(MapPut(contactsMap, Head(parsed).key,
                     [Head(parsed) EXCEPT !.source = <<source>>]),
              Tail(parsed), source)

\* the merge of one entry of Contacts.csv
MergeContact(contactsMap, info) ==
  IF MapHas(contactsMap, info.key) THEN
    LET old == MapGet(contactsMap, info.key)
        withEmails == IF info.emails # <<>>
                      THEN [old EXCEPT
                              !.emails = info.emails,
                              !.email = IF old.email = <<>> /\ info.email # <<>>
                                        THEN info.email ELSE @]
                      ELSE old
        withPhones == IF info.phones # <<>> THEN [withEmails EXCEPT !.phones = info.phones]
                      ELSE withEmails
        merged == [withPhones EXCEPT
                     !.company = IF @ = <<>> /\ info.company # <<>> THEN info.company ELSE @,
                     !.position = IF @ = <<>> /\ info.position # <<>> THEN info.position ELSE @,
                     !.source = IF @ = <<>> THEN <<"contact">> ELSE @]
    IN MapPut(contactsMap, info.key, merged)
  ELSE IF info.first # <<>> /\ info.last # <<>>
       THEN MapPut(contactsMap, info.key, [info EXCEPT !.source = <<"contact">>])
       ELSE contactsMap

\* the merge of one entry of Invitations.csv
MergeInvitation(contactsMap, info) ==
  IF MapHas(contactsMap, info.key) THEN
    LET old == MapGet(contactsMap, info.key)
    IN MapPut(contactsMap, info.key,
         [old EXCEPT
            !.invStatus = IF info.invStatus # <<>> THEN info.invStatus ELSE @,
            !.invSentAt = IF info.invSentAt # <<>> THEN info.invSentAt ELSE @,
            !.invMessage = IF info.invMessage # <<>> THEN info.invMessage ELSE @,
            !.url = IF @ = <<>> /\ info.url # <<>> THEN info.url ELSE @])
  ELSE IF info.first # <<>> /\ info.last # <<>>
       THEN MapPut(contactsMap, info.key, info)
       ELSE contactsMap

\* the merge of one entry of messages.csv
MergeMessage(contactsMap, info) ==
  IF MapHas(contactsMap, info.key) THEN
    LET old == MapGet(contactsMap, info.key)
    IN MapPut(contactsMap, info.key,
         [old EXCEPT
            !.msgDate = IF info.msgDate # <<>> THEN info.msgDate ELSE @,
            !.msgContent = IF info.msgContent # <<>> THEN info.msgContent ELSE @,
            !.url = IF @ = <<>> /\ info.url # <<>> THEN info.url ELSE @])
  ELSE IF info.first # <<>> /\ info.last # <<>>
       THEN MapPut(contactsMap, info.key, info)
       ELSE contactsMap

MergeEntry(kind, contactsMap, info) ==
  IF kind = "contacts" THEN MergeContact(contactsMap, info)
  ELSE IF kind = "invitations" THEN MergeInvitation(contactsMap, info)
  ELSE MergeMessage(contactsMap, info)

RECURSIVE MergeAll(_, _, _)
MergeAll(kind, contactsMap, parsed) ==
  IF parsed = <<>> THEN contactsMap
  ELSE MergeAll(kind, MergeEntry(kind, contactsMap, Head(parsed)), Tail(parsed))

ParsedAs(kind, lines) ==
  IF kind = "contacts" THEN parseContactsCSV(lines)
  ELSE IF kind = "invitations" THEN parseInvitationsCSV(lines)
  ELSE parseMessagesCSV(lines)

\* the lines of a file in which the parser of a kind finds its columns: a
\* parser looks its columns up by name and skips every line of a file with
\* other headers
LinesFor(file, kind) == IF file.header = kind THEN file.lines ELSE <<>>

\* a block without its try: a file that cannot be read ends the import
ZipStage_Abort(archive, kind, contactsMap) ==
  IF FilesOf(archive, kind) = <<>> THEN contactsMap
  ELSE IF ~FirstFile(archive, kind).readable THEN <<>>
  ELSE IF kind = "connections"
       THEN PutConnections(contactsMap,
                           parseCSV(LinesFor(FirstFile(archive, kind), kind)))
       ELSE MergeAll(kind, contactsMap,
                     ParsedAs(kind, LinesFor(FirstFile(archive, kind), kind)))

\* one if (file) { try { ... } catch { warn } } block of processZIPFile: a
\* file that is absent or cannot be read leaves the map as it is
ZipStage(archive, kind, contactsMap) ==
  LET file == FirstFile(archive, kind)
  IN IF FilesOf(archive, kind) = <<>> THEN contactsMap
     ELSE IF ~file.readable THEN contactsMap
     ELSE IF kind = "connections"
          THEN PutConnections(contactsMap, parseCSV(LinesFor(file, kind)))
          ELSE MergeAll(kind, contactsMap, ParsedAs(kind, LinesFor(file, kind)))

\* the four blocks in the order of the code
ZipContacts(archive) ==
  ZipStage(archive, "messages",
    ZipStage(archive, "invitations",
      ZipStage(archive, "contacts",
        ZipStage(archive, "connections", <<>>))))

\* what a call settles with: the contacts, or the error thrown or rejected
Resolved(contacts) == [ok |-> TRUE, contacts |-> contacts]
Rejected == [ok |-> FALSE, contacts |-> <<>>]

processZIPFileOf(archive) ==
  IF ZipContacts(archive) = <<>> THEN Rejected ELSE Resolved(ZipContacts(archive))

\* the branch processCSVFile takes: by the file name, else by the header
CsvKind(file) ==
  IF NameKind(file.name) = "connections" \/ file.header = "connections"
  THEN "connections"
  ELSE IF NameKind(file.name) = "contacts" \/ file.header = "contacts" THEN "contacts"
  ELSE IF NameKind(file.name) = "invitations" \/ file.header = "invitations"
  THEN "invitations"
  ELSE IF NameKind(file.name) = "messages" \/ file.header = "messages" THEN "messages"
  ELSE "connections"

CsvContacts(file) ==
  IF CsvKind(file) = "connections"
  THEN PutConnections(<<>>, parseCSV(LinesFor(file, "connections")))
  ELSE IF CsvKind(file) = "contacts"
  THEN PutAll(<<>>, parseContactsCSV(LinesFor(file, "contacts")), "contact")
  ELSE IF CsvKind(file) = "invitations"
  THEN PutAll(<<>>, parseInvitationsCSV(LinesFor(file, "invitations")), "invitation")
  ELSE PutAll(<<>>, parseMessagesCSV(LinesFor(file, "messages")), "message")

processCSVFileOf(file) ==
  IF ~file.readable \/ CsvContacts(file) = <<>> THEN Rejected
  ELSE Resolved(CsvContacts(file))

processZIPFile(archive) ==
  /\ ret.op = "upload"
  /\ ret' = [op |-> "processZIPFile", archive |-> archive,
             value |-> processZIPFileOf(archive)]
  /\ UNCHANGED <<profiles, connections, gnn_nodes, gnn_node_profiles, gnn_edges,
                 gnn_predictions, comparison_sessions, comparison_results, inflight>>

processCSVFile(file) ==
  /\ ret.op = "upload"
  /\ ret' = [op |-> "processCSVFile", archive |-> <<file>>,
             value |-> processCSVFileOf(file)]
  /\ UNCHANGED <<profiles, connections, gnn_nodes, gnn_node_profiles, gnn_edges,
                 gnn_predictions, comparison_sessions, comparison_results, inflight>>

\* the profile of each contact: the name, the profile URL ('' without one),
\* the company and the position
contactsToProfiles(contacts) ==
  [i \in 1..Len(contacts) |->
     [full_name |-> contacts[i].first \o contacts[i].last,
      linkedin_url |-> contacts[i].url,
      company |-> contacts[i].company,
      title |-> contacts[i].position]]

\* normalizeProfile throws for a profile without a name or without a URL
Normalizable(profile) == profile.full_name # <<>> /\ profile.linkedin_url # <<>>

\* the loop without its try: the first profile normalizeProfile throws for
\* ends it
normalizedProfiles_StopAtFirst(contacts) ==
  LET all == contactsToProfiles(contacts)
      bad == {i \in 1..Len(all) : ~Normalizable(all[i])}
  IN SubSeq(all, 1, IF bad = {} THEN Len(all)
                    ELSE (CHOOSE i \in bad : \A j \in bad : i <= j) - 1)

\* the loop of handleProcessData that skips the profiles normalizeProfile
\* throws for
normalizedProfiles(contacts) == SelectSeq(contactsToProfiles(contacts), Normalizable)

\* upsertProfiles as handleProcessData sees it: the saved rows, none when
\* the statement fails (the database is unreachable, the batch is empty or
\* names one URL twice)
SavedProfiles(tbl, batch, dbOk) ==
  IF ~dbOk \/ batch = <<>>
     \/ HasDuplicate([i \in 1..Len(batch) |-> ProfileUrl(batch[i])])
  THEN <<>>
  ELSE LET after == ProfileUpsertAll(tbl, batch)
       IN [i \in 1..Len(batch) |->
             after[CHOOSE k \in 1..Len(after) :
                     after[k].linkedin_url = batch[i].linkedin_url]]

\* savedProfiles.map((profile, index) => ...): the connection of the
\* importing user to each saved profile, dated by contacts[index]
ImportConnections(saved, contacts, now, tz, engine) ==
  [i \in 1..Len(saved) |->
     [user_id |-> "u1", profile_id |-> saved[i].id,
      connected_on |-> parseConnectionDateOf(contacts[i].connectedOn, now, tz, engine)]]

\* handleProcessData returns at once without a user or without contacts;
\* "Failed to save profiles" is thrown and shown when no profile is saved
handleProcessData(dbOk, connectionsOk, tz, engine) ==
  /\ ret.op \in {"processCSVFile", "processZIPFile"}
  /\ ret.value.ok
  /\ LET batch == normalizedProfiles(ret.value.contacts)
         saved == SavedProfiles(profiles, batch, dbOk)
         links == ImportConnections(saved, ret.value.contacts, ImportTime, tz, engine)
     IN /\ profiles' = IF saved = <<>> THEN profiles
                       ELSE ProfileUpsertAll(profiles, batch)
        /\ connections' = IF saved = <<>> \/ ~connectionsOk THEN connections
                          ELSE ConnectionUpsertAll(connections, links)
        /\ ret' = [op |-> "handleProcessData", archive |-> ret.archive,
                   value |-> ret.value,
                   batch |-> batch,
                   tz |-> tz, engine |-> engine,
                   error |-> saved = <<>>,
                   logged |-> IF saved = <<>> THEN <<>>
                              ELSE <<Len(saved),
                                     IF connectionsOk THEN Len(links) ELSE 0>>]
  /\ UNCHANGED <<gnn_nodes, gnn_node_profiles, gnn_edges, gnn_predictions,
                 comparison_sessions, comparison_results, inflight>>

----------------------------------------------------------------------------
(* Enrichment: enrichProfile, fallbackEnrichment and enrichProfiles         *)

\* the keywords of fallbackEnrichment that the lower-cased word contains
Substrings(word) ==
  IF word \in {"UI", "ui"} THEN {"ui"}
  ELSE IF word = "Builder" THEN {"ui"}
  ELSE IF word = "Designer" THEN {"design"}
  ELSE IF word = "CEO" THEN {"ceo"}
  ELSE IF word \in {"Sales", "sales"} THEN {"sales"}
  ELSE IF word = "Manager" THEN {"manager"}
  ELSE IF word = "Engineer" THEN {"engineer"}
  ELSE {}

\* (profile.title?.toLowerCase() || '').includes(key), for the keys that
\* hold no space
TitleIncludes(title, key) == \E i \in 1..Len(title) : key \in Substrings(title[i])

\* (profile.company?.toLowerCase() || '').includes(key)
CompanyIncludes(company, key) ==
  company = "First Capital Bancorp Inc" /\ key \in {"capital", "corp", "inc"}

\* company.length
CompanyLength(company) ==
  IF company = NULL THEN 0
  ELSE IF company = "First Capital Bancorp Inc" THEN 25
  ELSE 4

AnyOf(title, keys) == \E key \in keys : TitleIncludes(title, key)

FallbackRoleLevel(title) ==
  IF AnyOf(title, {"ceo", "chief", "president", "founder", "owner", "partner"})
  THEN "Executive"
  ELSE IF AnyOf(title, {"manager", "director", "lead"}) THEN "Manager"
  ELSE "IC"

FallbackJobFunction(title) ==
  IF AnyOf(title, {"engineer", "developer", "programmer"}) THEN "Engineering"
  ELSE IF AnyOf(title, {"sales", "account"}) THEN "Sales"
  ELSE IF AnyOf(title, {"market"}) THEN "Marketing"
  ELSE IF AnyOf(title, {"product"}) THEN "Product"
  ELSE IF AnyOf(title, {"design"}) THEN "Design"
  ELSE IF AnyOf(title, {"data", "analyst"}) THEN "Data"
  ELSE IF AnyOf(title, {"hr", "recruit"}) THEN "HR"
  ELSE IF AnyOf(title, {"finance"}) THEN "Finance"
  ELSE "Other"

FallbackIndustry(company) ==
  IF \E k \in {"tech", "software", "app", "digital", "computer"} :
       CompanyIncludes(company, k)
  THEN "Technology"
  ELSE IF \E k \in {"bank", "finance", "capital", "invest", "fund"} :
            CompanyIncludes(company, k)
  THEN "Finance"
  ELSE IF \E k \in {"health", "medical", "hospital", "pharma"} :
            CompanyIncludes(company, k)
  THEN "Healthcare"
  ELSE IF \E k \in {"edu", "school", "university", "college"} :
            CompanyIncludes(company, k)
  THEN "Education"
  ELSE IF \E k \in {"retail", "shop", "store"} : CompanyIncludes(company, k)
  THEN "Retail"
  ELSE "Other"

FallbackSkills(title) ==
  LET jobFunction == FallbackJobFunction(title)
  IN IF jobFunction = "Engineering" THEN
       <<"Programming", "Software Development">>
       \o (IF AnyOf(title, {"frontend", "front-end", "ui"})
           THEN <<"Frontend Development", "JavaScript", "React">>
           ELSE IF AnyOf(title, {"backend", "back-end", "api"})
           THEN <<"Backend Development", "API Design", "Databases">>
           ELSE IF AnyOf(title, {"full"})
           THEN <<"Full Stack Development", "JavaScript", "Databases">>
           ELSE IF AnyOf(title, {"mobile"})
           THEN <<"Mobile Development", "iOS", "Android">>
           ELSE IF AnyOf(title, {"devops", "cloud"})
           THEN <<"DevOps", "Cloud Computing", "CI/CD">>
           ELSE <<>>)
     ELSE IF jobFunction = "Sales"
     THEN <<"Sales", "Negotiation", "Client Relationship Management">>
     ELSE IF jobFunction = "Marketing" THEN
       <<"Marketing", "Social Media", "Content Creation">>
       \o (IF AnyOf(title, {"digital"}) THEN <<"Digital Marketing", "SEO", "SEM">>
           ELSE <<>>)
     ELSE IF jobFunction = "Product"
     THEN <<"Product Management", "User Experience", "Roadmapping">>
     ELSE IF jobFunction = "Design" THEN
       <<"Design", "User Experience", "Visual Design">>
       \o (IF AnyOf(title, {"ux"}) THEN <<"UX Design", "User Research", "Wireframing">>
           ELSE IF AnyOf(title, {"ui"})
           THEN <<"UI Design", "Visual Design", "Design Systems">>
           ELSE <<>>)
     ELSE <<>>

fallbackEnrichment(profile, now) ==
  [role_level |-> FallbackRoleLevel(profile.title),
   job_function |-> FallbackJobFunction(profile.title),
   industry |-> FallbackIndustry(profile.company),
   company_size |-> IF CompanyLength(profile.company) > 20 THEN "Large"
                    ELSE "Small/Medium",
   skills |-> FallbackSkills(profile.title),
   company_location |-> "Unknown",
   is_public |-> \E k \in {"inc", "corp", "ltd"} : CompanyIncludes(profile.company, k),
   founded_year |-> "Unknown",
   enriched_at |-> <<now>>]

\* a property the parsed JSON object does not have
Undefined == "undefined"

\* the object JSON.parse gives for the text of a response
GeminiJson(seniority, skillsArray) ==
  [seniority_level |-> seniority, job_function |-> "Design",
   industry |-> "Technology", company_size |-> "51-200",
   skillsArray |-> skillsArray, skills |-> <<"Figma">>,
   company_location |-> "Berlin", is_public |-> FALSE, founded_year |-> "2010"]

\* how the call ends: fetch rejects, the status is not 2xx, the body is not
\* JSON, the body has no candidates, the text has no {...}, the {...} does
\* not parse, or it parses
ResponseKinds ==
  {"rejected", "status", "body", "candidates", "noObject", "badJson", "ok"}

\* the fields taken from the parsed object
GeminiFields(json, now) ==
  [role_level |-> json.seniority_level,
   job_function |-> json.job_function,
   industry |-> json.industry,
   company_size |-> json.company_size,
   skills |-> IF json.skillsArray THEN json.skills ELSE <<>>,
   company_location |-> json.company_location,
   is_public |-> json.is_public,
   founded_year |-> json.founded_year,
   enriched_at |-> <<now>>]

\* a catch that keeps what was read of a text that does not parse
enrichProfile_Partial(profile, response, now) ==
  IF response.kind = "ok" THEN GeminiFields(response.json, now)
  ELSE IF response.kind = "badJson"
  THEN [fallbackEnrichment(profile, now) EXCEPT !.job_function = response.json.job_function]
  ELSE fallbackEnrichment(profile, now)

enrichProfileOf(profile, response, now) ==
  IF response.kind = "ok" THEN GeminiFields(response.json, now)
  ELSE fallbackEnrichment(profile, now)

\* from('profiles').update(enrichedData).eq('id', id): a property that is
\* undefined is not sent and its column is kept
ProfileUpdate(tbl, id, data) ==
  [i \in 1..Len(tbl) |->
     IF tbl[i].id = id
     THEN [tbl[i] EXCEPT
             !.role_level = IF data.role_level # Undefined THEN data.role_level ELSE @,
             !.job_function = IF data.job_function # Undefined THEN data.job_function ELSE @,
             !.industry = IF data.industry # Undefined THEN data.industry ELSE @,
             !.company_size = IF data.company_size # Undefined THEN data.company_size ELSE @,
             !.skills = data.skills,
             !.company_location = IF data.company_location # Undefined
                                  THEN data.company_location ELSE @,
             !.is_public = data.is_public,
             !.founded_year = IF data.founded_year # Undefined THEN data.founded_year ELSE @,
             !.enriched_at = data.enriched_at]
     ELSE tbl[i]]

\* the profiles of the user's connections whose enriched_at is null
ToEnrich(userId) ==
  SelectSeq(profiles, LAMBDA p : /\ p.id \in ConnectedProfileIds(userId)
                                 /\ p.enriched_at = NotEnriched)

\* enrichProfiles up to its second select: it returns when the user has no
\* connection or no profile to enrich, else the profiles read are in hand
enrichProfiles_select(userId) ==
  /\ ret.runs < MaxRuns
  /\ inflight' = IF ToEnrich(userId) = <<>> THEN inflight
                 ELSE inflight \cup {[id |-> ret.runs + 1, user |-> userId,
                                      todo |-> ToEnrich(userId)]}
  /\ ret' = [ret EXCEPT !.op = "enrichProfiles", !.runs = @ + 1]
  /\ UNCHANGED <<profiles, connections, gnn_nodes, gnn_node_profiles, gnn_edges,
                 gnn_predictions, comparison_sessions, comparison_results>>

\* one promise of the batch: enrichProfile of the profile as it was read,
\* then the update by id, whose error is only logged
enrichProfiles_profile(run, k, response, elapsed, updateOk) ==
  /\ run \in inflight
  /\ k \in 1..Len(run.todo)
  /\ ret.now + elapsed <= MaxTime
  /\ LET profile == run.todo[k]
         enrichedData == enrichProfileOf(profile, response, ret.now + elapsed)
         rest == [run EXCEPT !.todo = SelectSeq(run.todo, LAMBDA p : p.id # profile.id)]
     IN /\ profiles' = IF updateOk THEN ProfileUpdate(profiles, profile.id, enrichedData)
                       ELSE profiles
        /\ inflight' = (inflight \ {run}) \cup {rest}
        /\ ret' = [ret EXCEPT !.op = "enrichProfiles", !.now = @ + elapsed]
  /\ UNCHANGED <<connections, gnn_nodes, gnn_node_profiles, gnn_edges,
                 gnn_predictions, comparison_sessions, comparison_results>>

\* every promise has settled: the notification is sent and the run ends
enrichProfiles_done(run) ==
  /\ run \in inflight
  /\ run.todo = <<>>
  /\ inflight' = inflight \ {run}
  /\ ret' = [ret EXCEPT !.op = "enrichProfiles"]
  /\ UNCHANGED <<profiles, connections, gnn_nodes, gnn_node_profiles, gnn_edges,
                 gnn_predictions, comparison_sessions, comparison_results>>

\* one call of enrichProfile, by itself
enrichProfile(elapsed) ==
  /\ ret.op = "profile"
  /\ ret' = [ret EXCEPT !.op = "enrichProfile", !.now = @ + elapsed,
                        !.data = enrichProfileOf(ret.profile, ret.response,
                                                 ret.now + elapsed)]
  /\ UNCHANGED <<profiles, connections, gnn_nodes, gnn_node_profiles, gnn_edges,
                 gnn_predictions, comparison_sessions, comparison_results, inflight>>

\* a re-import: upsertProfiles of profiles the table already holds
reimportProfiles(batch) ==
  /\ profiles' = ProfileUpsertAll(profiles, batch)
  /\ profiles' # profiles
  /\ ret' = [ret EXCEPT !.op = "upsertProfiles"]
  /\ UNCHANGED <<connections, gnn_nodes, gnn_node_profiles, gnn_edges,
                 gnn_predictions, comparison_sessions, comparison_results, inflight>>

----------------------------------------------------------------------------
(* The profile store: an empty database and the three profile write paths  *)

NoCall == [op |-> "none", conflicts |-> 0, value |-> 0]

EmptyGraph ==
  /\ gnn_nodes = <<>>
  /\ gnn_node_profiles = <<>>
  /\ gnn_edges = <<>>
  /\ gnn_predictions = <<>>
  /\ comparison_sessions = <<>>
  /\ comparison_results = <<>>
  /\ inflight = {}

Init ==
  /\ profiles = <<>>
  /\ connections = <<>>
  /\ EmptyGraph
  /\ ret = NoCall

Next ==
  \/ \E p \in ProfilePayloads : upsertProfile(p)
  \/ \E batch \in SeqsUpTo(ProfilePayloads, MaxBatch) : upsertProfiles(batch)
  \/ \E batch \in SeqsUpTo(ProfilePayloads, MaxBatch) : upsert_profile_batch(batch)

Spec == Init /\ [][Next]_vars

(* The connection store: n profiles have been imported, then connections   *)
(* are written through the two connection write paths                      *)

ImportedProfiles(n) ==
  [i \in 1..n |-> NewProfileRow([k \in 1..(i - 1) |-> k],
                                [linkedin_url |-> i, company |-> "Acme", title |-> <<"vp">>])]

InitConnections ==
  /\ \E n \in {MaxProfiles - 1, MaxProfiles} : profiles = ImportedProfiles(n)
  /\ connections = <<>>
  /\ EmptyGraph
  /\ ret = NoCall

NextConnections ==
  \/ \E u \in Users, p \in ProfileIds, d \in Dates : createConnection(u, p, d)
  \/ \E batch \in ConnectionBatches : batchInsertConnections(batch)

SpecConnections == InitConnections /\ [][NextConnections]_vars

----------------------------------------------------------------------------
(* The graph builder: profiles and connections have been imported and      *)
(* createNodeFromProfile has run for some of the connections; then the     *)
(* affiliation and mutual-appearance passes run, any number of times.      *)

GraphProfileIds == 1..MaxGraphProfiles

\* the profiles table after an import of MaxGraphProfiles contacts
GraphProfiles(company, title, jobFunction) ==
  [i \in GraphProfileIds |->
     [NewProfileRow([k \in 1..(i - 1) |-> k],
                    [linkedin_url |-> i, company |-> company[i], title |-> title[i]])
        EXCEPT !.job_function = jobFunction[i]]]

\* u1 imported the first k1 profiles, then u2 the last k2
GraphConnections(k1, k2) ==
  [i \in 1..k1 |-> [user_id |-> "u1", profile_id |-> i, connected_on |-> "2024-01-15"]]
  \o [i \in 1..k2 |-> [user_id |-> "u2", profile_id |-> MaxGraphProfiles - k2 + i,
                       connected_on |-> "2025-04-06"]]

\* which connections createNodeFromProfile has run for, in table order:
\* every one, or the first of each profile, or the first of each profile
\* but the last profile
MappingModes == {"everyConnection", "firstConnection", "firstButLast"}

MappedConnections(conns, mode) ==
  SelectSeq(conns,
    LAMBDA c : \/ mode = "everyConnection"
               \/ /\ c.user_id = conns[CHOOSE i \in 1..Len(conns) :
                                         /\ conns[i].profile_id = c.profile_id
                                         /\ \A j \in 1..(i - 1) :
                                              conns[j].profile_id # c.profile_id].user_id
                  /\ (mode = "firstButLast" => c.profile_id # MaxGraphProfiles))

RECURSIVE NodesAfter(_, _)
NodesAfter(tbl, calls) ==
  IF calls = <<>> THEN tbl
  ELSE NodesAfter(NodeUpsertRow(tbl, ProfileNode(Head(calls).profile_id, Head(calls).user_id)),
                  Tail(calls))

MappingsAfter(calls) ==
  [i \in 1..Len(calls) |-> ProfileMapping(calls[i].profile_id, calls[i].user_id)]

InitGraphWorld(company, title, jobFunction, k1, k2, mode, seed) ==
  /\ profiles = GraphProfiles(company, title, jobFunction)
  /\ connections = GraphConnections(k1, k2)
  /\ gnn_nodes = NodesAfter(seed, MappedConnections(GraphConnections(k1, k2), mode))
  /\ gnn_node_profiles = MappingsAfter(MappedConnections(GraphConnections(k1, k2), mode))
  /\ gnn_edges = <<>>
  /\ gnn_predictions = <<>>
  /\ comparison_sessions = <<>>
  /\ comparison_results = <<>>
  /\ inflight = {}
  /\ ret = NoCall

InitGraph ==
  \E company \in [GraphProfileIds -> Companies \cup {NULL}],
     k1, k2 \in 0..MaxGraphProfiles, mode \in MappingModes :
    InitGraphWorld(company, [i \in GraphProfileIds |-> <<"vp">>],
                   [i \in GraphProfileIds |-> NULL], k1, k2, mode, <<>>)

NextGraph ==
  \/ \E u \in Users : createAffiliationEdges(u)
  \/ createMutualAppearanceEdges

SpecGraph == InitGraph /\ [][NextGraph]_vars

(* Link prediction: the graph-builder database, with the user nodes the    *)
(* predictions refer to in place; the three passes and generatePredictions *)
(* run in any order.  u3 is a user who has imported nothing.               *)

Viewers == Users \cup {"u3"}

UserNodes ==
  <<[node_id |-> UserNodeId("u1"), type |-> "user", source_user_ids |-> <<"u1">>],
    [node_id |-> UserNodeId("u2"), type |-> "user", source_user_ids |-> <<"u2">>],
    [node_id |-> UserNodeId("u3"), type |-> "user", source_user_ids |-> <<"u3">>]>>

InitPredict ==
  \E k1 \in 0..MaxGraphProfiles, mode \in MappingModes :
    InitGraphWorld([i \in GraphProfileIds |-> "Acme"],
                   [i \in GraphProfileIds |-> <<"vp">>],
                   [i \in GraphProfileIds |-> "Engineering"],
                   k1, MaxGraphProfiles, mode, UserNodes)

NextPredict ==
  \/ \E u \in Users : createAffiliationEdges(u)
  \/ \E u \in Users : createTitleSimilarityEdges(u, DefaultThreshold)
  \/ createMutualAppearanceEdges
  \/ \E u \in Viewers : generatePredictions(u)

SpecPredict == InitPredict /\ [][NextPredict]_vars

(* Network comparison: enriched profiles, each connected to u1, to u2 or   *)
(* to both; any user is compared with any user.                            *)

\* fallbackEnrichment of a profile titled "UI Designer" without a company:
\* the Design skills, then the skills of the 'ui' branch
FallbackUiDesigner ==
  [company |-> NULL, job_function |-> "Design", industry |-> "Other",
   role_level |-> "IC",
   skills |-> <<"Design", "User Experience", "Visual Design",
                "UI Design", "Visual Design", "Design Systems">>]

\* what the import and the enrichment pass have stored for a profile
AttributeKinds ==
  {[company |-> "Acme", job_function |-> "Engineering", industry |-> "Technology",
    role_level |-> "IC", skills |-> <<"sql", "go">>],
   [company |-> "Acme", job_function |-> "Sales", industry |-> NULL,
    role_level |-> NULL, skills |-> NULL],
   [company |-> NULL, job_function |-> "Engineering", industry |-> NULL,
    role_level |-> "IC", skills |-> <<"sql">>],
   [company |-> NULL, job_function |-> NULL, industry |-> NULL,
    role_level |-> NULL, skills |-> NULL],
   FallbackUiDesigner}

CompareProfiles(kind) ==
  [i \in GraphProfileIds |->
     [NewProfileRow([k \in 1..(i - 1) |-> k],
                    [linkedin_url |-> i, company |-> kind[i].company, title |-> <<"vp">>])
        EXCEPT !.job_function = kind[i].job_function,
               !.industry = kind[i].industry,
               !.role_level = kind[i].role_level,
               !.skills = kind[i].skills]]

InitCompare ==
  /\ \E kind \in [GraphProfileIds -> AttributeKinds] : profiles = CompareProfiles(kind)
  /\ \E k1, k2 \in 0..MaxGraphProfiles : connections = GraphConnections(k1, k2)
  /\ EmptyGraph
  /\ ret = NoCall

NextCompare ==
  \E a, b \in Users : compareNetworks(a, b)

SpecCompare == InitCompare /\ [][NextCompare]_vars

(* Comparison runs, statement by statement, over two networks of          *)
(* fallback-enriched profiles; runs interleave at their awaits.            *)

CompareRuns ==
  {CompareRun(id, a, b, pc) :
     id \in 1..MaxSessions, a \in Users, b \in Users,
     pc \in {"connections", "mutual", "predicted", "tags", "update"}}

InitSession ==
  /\ profiles = CompareProfiles([i \in GraphProfileIds |-> FallbackUiDesigner])
  /\ \E k1, k2 \in 0..MaxGraphProfiles : connections = GraphConnections(k1, k2)
  /\ EmptyGraph
  /\ ret = NoCall

NextSession ==
  \/ \E a, b \in Users : compareNetworks_session(a, b)
  \/ \E run \in CompareRuns :
       \/ compareNetworks_connections(run)
       \/ compareNetworks_connectionsError(run)
       \/ compareNetworks_mutual(run)
       \/ compareNetworks_predicted(run)
       \/ compareNetworks_tags(run)
       \/ compareNetworks_update(run)

SpecSession == InitSession /\ [][NextSession]_vars

(* Comparison runs over a database that may answer an insert or an       *)
(* update with an error; each user holds all the profiles or all but one.  *)

InitFaults ==
  /\ profiles = CompareProfiles([i \in GraphProfileIds |-> FallbackUiDesigner])
  /\ \E k1, k2 \in {MaxGraphProfiles - 1, MaxGraphProfiles} :
       connections = GraphConnections(k1, k2)
  /\ EmptyGraph
  /\ ret = NoCall

NextFaults ==
  \/ NextSession
  \/ \E run \in CompareRuns, n \in 0..MaxGraphProfiles :
       compareNetworks_insertError(run, n)
  \/ \E run \in CompareRuns : compareNetworks_updateError(run)

SpecFaults == InitFaults /\ [][NextFaults]_vars

(* Connection dates: an exported date in one of the shapes the export    *)
(* uses is parsed, and the result parsed again, on a machine of some time  *)
(* zone and engine while the clock runs.                                   *)

DateStrings ==
  {<<>>,
   <<Num(4, 2), Sep("/"), Num(6, 2), Sep("/"), Num(2025, 4)>>,
   <<Num(4, 1), Sep("/"), Num(6, 1), Sep("/"), Num(2025, 4)>>,
   <<Num(12, 2), Sep("/"), Num(31, 2), Sep("/"), Num(2024, 4)>>,
   <<Num(2, 2), Sep("/"), Num(29, 2), Sep("/"), Num(2024, 4)>>,
   <<Num(6, 2), Sep(" "), Word("Apr", 3), Sep(" "), Num(2025, 4)>>,
   <<Num(1, 1), Sep(" "), Word("Jan", 3), Sep(" "), Num(2025, 4)>>,
   <<Num(2025, 4), Sep("-"), Num(4, 2), Sep("-"), Num(6, 2), Word("T", 1),
     Num(13, 2), Sep(":"), Num(41, 2), Sep(":"), Num(37, 2), Sep(" "), Word("UTC", 3)>>,
   <<Num(4, 1), Sep("/"), Num(6, 1), Sep("/"), Num(25, 2), Sep(" "),
     Num(8, 1), Sep(":"), Num(35, 2), Sep(" "), Word("AM", 2)>>}

Elapsed == {0, 86400}

InitDate ==
  /\ profiles = <<>>
  /\ connections = <<>>
  /\ EmptyGraph
  /\ \E dateStr \in DateStrings, tz \in TimeZones, engine \in DateEngines :
       ret = [op |-> "dateStr", calls |-> 0, now |-> ImportTime, tz |-> tz,
              engine |-> engine, input |-> <<>>, value |-> dateStr]

\* the stored text is parsed: the export's at first, then the parser's own
NextDate ==
  \E elapsed \in Elapsed : parseConnectionDate(ret.value, elapsed)

SpecDate == InitDate /\ [][NextDate]_vars

(* Uploads: a CSV file or an archive of the export.  One kind of file    *)
(* holds any lines of its pool, up to MaxLines; the other kinds are        *)
(* absent, unreadable or hold their usual lines; the archive may hold a    *)
(* second file of the first kind in a folder, and stores its files in      *)
(* either order.                                                           *)

ConnectionLine(first, last, url, company, connectedOn) ==
  [first |-> first, last |-> last, url |-> url, email |-> <<>>,
   company |-> company, position |-> <<>>, connectedOn |-> connectedOn]

\* "06 Apr 2025" and "01 Jan 2025", the Connected On column of an export
ConnectedApril == <<Num(6, 2), Sep(" "), Word("Apr", 3), Sep(" "), Num(2025, 4)>>
ConnectedJanuary == <<Num(1, 2), Sep(" "), Word("Jan", 3), Sep(" "), Num(2025, 4)>>

LinePool(kind) ==
  IF kind = "connections" THEN
    {ConnectionLine(<<"Ann">>, <<"Lee">>, <<"in/ann">>, <<"Acme">>, ConnectedApril),
     ConnectionLine(<<"Ian">>, <<"Tyndall">>, <<"in/ian">>, <<"Acme">>, ConnectedApril),
     ConnectionLine(<<"Bo">>, <<>>, <<"in/bo">>, <<>>, ConnectedApril),
     ConnectionLine(<<"Flo">>, <<"Ray">>, <<>>, <<"Globex">>, ConnectedJanuary)}
  ELSE IF kind = "contacts" THEN
    {<<<<"Ann">>, <<"Lee">>, <<"Globex">>, <<"CTO">>, <<"a@x">>, <<"555">>>>,
     <<<<"Ann">>, <<"Lee">>, <<"Initech">>, <<"CEO">>, <<"b@x">>, <<"777">>>>,
     <<<<"Cy">>, <<"Day">>, <<"null">>, <<"null">>, <<"c@x", "d@x">>, <<"999">>>>}
  ELSE IF kind = "invitations" THEN
    {<<OwnerName, <<"Ann", "Lee">>, <<"2025-04-06">>, <<"hi">>, <<"OUTGOING">>,
       <<"in/ian">>, <<"in/ann">>>>,
     <<<<"Dee", "Fox">>, OwnerName, <<"2024-01-15">>, <<"hello">>, <<"INCOMING">>,
       <<"in/dee">>, <<"in/ian">>>>,
     <<<<"Cher">>, OwnerName, <<"2024-01-15">>, <<"hello">>, <<"INCOMING">>,
       <<"in/cher">>, <<"in/ian">>>>}
  ELSE
    {<<<<"Ann", "Lee">>, OwnerName, <<"2024-01-15">>, <<"hello">>,
       <<"in/ann">>, <<"in/ian">>>>,
     <<OwnerName, <<"Eve", "Hill">>, <<"2025-04-06">>, <<"hi">>,
       <<"in/ian">>, <<"in/eve">>>>,
     <<OwnerName, OwnerName, <<"2025-04-06">>, <<"note">>,
       <<"in/ian">>, <<"in/ian">>>>}

RECURSIVE LinesOfLen(_, _)
LinesOfLen(kind, n) ==
  IF n = 0 THEN {<<>>}
  ELSE {Append(ls, l) : ls \in LinesOfLen(kind, n - 1), l \in LinePool(kind)}

AnyLines(kind) == UNION {LinesOfLen(kind, n) : n \in 1..MaxLines}

\* the lines a kind of file usually holds: people the other kinds lack
UsualLines(kind) ==
  IF kind = "connections"
  THEN <<ConnectionLine(<<"Ann">>, <<"Lee">>, <<"in/ann">>, <<"Acme">>, ConnectedApril)>>
  ELSE IF kind = "contacts"
  THEN <<<<<<"Cy">>, <<"Day">>, <<"null">>, <<"null">>, <<"c@x", "d@x">>, <<"999">>>>>>
  ELSE IF kind = "invitations"
  THEN <<<<<<"Dee", "Fox">>, OwnerName, <<"2024-01-15">>, <<"hello">>, <<"INCOMING">>,
           <<"in/dee">>, <<"in/ian">>>>>>
  ELSE <<<<OwnerName, <<"Eve", "Hill">>, <<"2025-04-06">>, <<"hi">>,
           <<"in/ian">>, <<"in/eve">>>>>>

ExportName(kind) ==
  IF kind = "connections" THEN "Connections.csv"
  ELSE IF kind = "contacts" THEN "Contacts.csv"
  ELSE IF kind = "invitations" THEN "Invitations.csv"
  ELSE "messages.csv"

FolderName(kind) ==
  IF kind = "connections" THEN "backup/Connections.csv"
  ELSE IF kind = "contacts" THEN "backup/Contacts.csv"
  ELSE IF kind = "invitations" THEN "backup/Invitations.csv"
  ELSE "backup/messages.csv"

File(name, header, lines, readable) ==
  [name |-> name, header |-> header, lines |-> lines, readable |-> readable]

Presences == {"absent", "unreadable", "usual"}

Reverse(seq) == [i \in 1..Len(seq) |-> seq[Len(seq) + 1 - i]]

\* the archive whose kind `first` holds `lines`, with a second file of
\* that kind or not, the other kinds as `presence` says
ArchiveOf(first, lines, second, presence, reversed) ==
  LET Entry(k) ==
        IF FileKinds[k] = first
        THEN <<File(ExportName(first), first, lines, TRUE)>>
             \o (IF second THEN <<File(FolderName(first), first, UsualLines(first), TRUE)>>
                 ELSE <<>>)
        ELSE IF presence[k] = "absent" THEN <<>>
        ELSE <<File(ExportName(FileKinds[k]), FileKinds[k], UsualLines(FileKinds[k]),
                    presence[k] = "usual")>>
      files == Entry(1) \o Entry(2) \o Entry(3) \o Entry(4)
  IN IF reversed THEN Reverse(files) ELSE files

CsvNames == {"Connections.csv", "Contacts.csv", "Invitations.csv", "messages.csv",
             "export.csv"}

InitUpload ==
  /\ profiles = <<>>
  /\ connections = <<>>
  /\ EmptyGraph
  /\ ret = [op |-> "upload", archive |-> <<>>, value |-> Rejected]

\* a file is chosen and processed
Upload ==
  \/ \E k \in 1..4, second \in BOOLEAN, presence \in [1..4 -> Presences],
        reversed \in BOOLEAN :
       \E lines \in AnyLines(FileKinds[k]) :
         processZIPFile(ArchiveOf(FileKinds[k], lines, second, presence, reversed))
  \/ \E k \in 1..4, name \in CsvNames, readable \in BOOLEAN :
       \E lines \in AnyLines(FileKinds[k]) :
         processCSVFile(File(name, FileKinds[k], lines, readable))

NextUpload ==
  \/ ret.op = "upload" /\ Upload
  \/ \E dbOk, connectionsOk \in BOOLEAN, tz \in TimeZones, engine \in DateEngines :
       handleProcessData(dbOk, connectionsOk, tz, engine)

SpecUpload == InitUpload /\ [][NextUpload]_vars

(* Enrichment: two users share profile 1, u1 also holds profile 2; runs    *)
(* of enrichProfiles interleave with each other and with a re-import.      *)

EnrichTitles == {<<"UI", "Designer">>, <<"CEO">>}

\* the call fails, or answers with a seniority the prompt does not list
EnrichResponses ==
  {[kind |-> "status", json |-> GeminiJson("Executive", TRUE)],
   [kind |-> "ok", json |-> GeminiJson("Senior", TRUE)]}

ReimportPayloads ==
  {[linkedin_url |-> 1, company |-> "Acme", title |-> <<"Builder">>]}

InitEnrich ==
  /\ \E title \in EnrichTitles :
       profiles = ProfileUpsertAll(<<>>,
                    <<[linkedin_url |-> 1, company |-> NULL, title |-> title],
                      [linkedin_url |-> 2, company |-> "Acme", title |-> <<"Engineer">>]>>)
  /\ connections = <<[user_id |-> "u1", profile_id |-> 1, connected_on |-> "2024-01-15"],
                     [user_id |-> "u2", profile_id |-> 1, connected_on |-> "2024-01-15"],
                     [user_id |-> "u1", profile_id |-> 2, connected_on |-> "2024-01-15"]>>
  /\ EmptyGraph
  /\ ret = [op |-> "none", now |-> 1, runs |-> 0]

NextEnrich ==
  \/ \E userId \in Users : enrichProfiles_select(userId)
  \/ \E run \in inflight, k \in 1..MaxProfiles, response \in EnrichResponses,
        elapsed \in {0, 1}, updateOk \in BOOLEAN :
       enrichProfiles_profile(run, k, response, elapsed, updateOk)
  \/ \E run \in inflight : enrichProfiles_done(run)
  \/ \E p \in ReimportPayloads : reimportProfiles(<<p>>)

SpecEnrich == InitEnrich /\ [][NextEnrich]_vars

(* enrichProfile: any profile, any way the call may end                    *)

ProfileTitles ==
  {NoTitle, <<"UI", "Designer">>, <<"CEO">>, <<"Sales", "Manager">>, <<"Builder">>}

ProfileCompanies == {NULL, "Acme", "First Capital Bancorp Inc"}

Seniorities == {"Executive", "Senior", Undefined}

GeminiResponses ==
  {[kind |-> k, json |-> GeminiJson(sl, arr)] :
     k \in ResponseKinds, sl \in Seniorities, arr \in BOOLEAN}

InitEnrichProfile ==
  /\ profiles = <<>>
  /\ connections = <<>>
  /\ EmptyGraph
  /\ \E title \in ProfileTitles, company \in ProfileCompanies,
        response \in GeminiResponses :
       ret = [op |-> "profile",
              profile |-> NewProfileRow(<<>>, [linkedin_url |-> 1, company |-> company,
                                               title |-> title]),
              response |-> response, now |-> 1, data |-> <<>>]

NextEnrichProfile == \E elapsed \in 0..MaxTime : enrichProfile(elapsed)

SpecEnrichProfile == InitEnrichProfile /\ [][NextEnrichProfile]_vars

(* Title similarity: u1 is connected to every profile; the first two carry *)
(* any title of up to MaxTitleLen words, the second any job function.      *)

TitleVocabulary == {"VP", "vp", "sales"}

RECURSIVE TitlesOfLen(_)
TitlesOfLen(n) ==
  IF n = 0 THEN {<<>>}
  ELSE {Append(t, w) : t \in TitlesOfLen(n - 1), w \in TitleVocabulary}

Titles == UNION {TitlesOfLen(n) : n \in 0..MaxTitleLen}

Thresholds == {Rat(1, 2), DefaultThreshold}

InitTitle ==
  \E titleA, titleB \in Titles, jobFunction \in {"Engineering", "Sales", NULL},
     mode \in MappingModes :
    InitGraphWorld([i \in GraphProfileIds |-> NULL],
                   [i \in GraphProfileIds |->
                      IF i = 1 THEN titleA ELSE IF i = 2 THEN titleB ELSE NoTitle],
                   [i \in GraphProfileIds |->
                      IF i = 2 THEN jobFunction ELSE "Engineering"],
                   MaxGraphProfiles, 0, mode, <<>>)

NextTitle ==
  \E u \in Users, threshold \in Thresholds : createTitleSimilarityEdges(u, threshold)

SpecTitle == InitTitle /\ [][NextTitle]_vars

(* Node creation, one await at a time: n profiles have been imported and   *)
(* any user may run createNodeFromProfile for any profile id.              *)

InitNodes ==
  /\ \E n \in {MaxProfiles - 1, MaxProfiles} : profiles = ImportedProfiles(n)
  /\ connections = <<>>
  /\ EmptyGraph
  /\ ret = NoCall

NextNodes ==
  \/ \E p \in ProfileIds, u \in Users : createNodeFromProfile_node(p, u)
  \/ \E p \in ProfileIds, u \in Users : createNodeFromProfile_mapping(p, u)

SpecNodes == InitNodes /\ [][NextNodes]_vars

----------------------------------------------------------------------------
(* C1: no two rows of profiles share a linkedin_url, and an upsert never   *)
(* removes or re-keys an existing row: a payload whose linkedin_url is     *)
(* already stored leaves the number of rows as it was.                     *)

UniqueLinkedinUrl ==
  \A i, j \in 1..Len(profiles) :
    profiles[i].linkedin_url = profiles[j].linkedin_url => i = j

ProfileUpsertInPlace ==
  /\ Len(profiles') >= Len(profiles)
  /\ \A i \in 1..Len(profiles) :
       /\ profiles'[i].id = profiles[i].id
       /\ profiles'[i].linkedin_url = profiles[i].linkedin_url
  /\ (ret'.op \in {"upsertProfile", "upsertProfiles", "upsert_profile_batch"}
        => Len(profiles') = Len(profiles) + (ret'.value - ret'.conflicts))

C1_UniqueProfileUrl == []UniqueLinkedinUrl /\ [][ProfileUpsertInPlace]_vars

C1_Witness ==
  /\ ret.op \in {"upsertProfile", "upsertProfiles", "upsert_profile_batch"}
  /\ ret.conflicts > 0
  /\ Len(profiles) = MaxProfiles

(* C2: at most one connections row per (user_id, profile_id); a repeated   *)
(* pair rewrites the stored row and adds none.                             *)

UniqueUserProfilePair ==
  \A i, j \in 1..Len(connections) :
    (/\ connections[i].user_id = connections[j].user_id
     /\ connections[i].profile_id = connections[j].profile_id) => i = j

ConnectionUpsertInPlace ==
  /\ Len(connections') >= Len(connections)
  /\ \A i \in 1..Len(connections) :
       ConnectionKey(connections'[i]) = ConnectionKey(connections[i])
  /\ (ret'.op \in {"createConnection", "batchInsertConnections"}
        => Len(connections') = Len(connections) + (ret'.value - ret'.conflicts))

C2_OneConnectionPerPair == []UniqueUserProfilePair /\ [][ConnectionUpsertInPlace]_vars

C2_Witness ==
  /\ ret.op \in {"createConnection", "batchInsertConnections"}
  /\ ret.conflicts > 0
  /\ Len(connections) >= 2

(* C3: an edge-generation pass is idempotent: when the pass that ran last  *)
(* runs again with the same argument, profiles, connections and mappings   *)
(* being what they were, gnn_edges is left as it was.                      *)

SamePassAgain ==
  /\ ret.op \in {"createAffiliationEdges", "createTitleSimilarityEdges",
                "createMutualAppearanceEdges"}
  /\ ret'.op = ret.op
  /\ (ret.op = "createAffiliationEdges" => ret'.user = ret.user)
  /\ (ret.op = "createTitleSimilarityEdges"
        => ret'.user = ret.user /\ ret'.threshold = ret.threshold)

C3_PassIdempotent == [][SamePassAgain => gnn_edges' = gnn_edges]_vars

(* C4: one affiliation run from an empty gnn_edges, for a user all of      *)
(* whose connected profiles have a node mapping, leaves for every company  *)
(* held by N of them exactly N*(N-1)/2 affiliation edges with that company *)
(* as property: one per unordered pair, weight 1.0.                        *)

EdgeIndexes(Test(_)) == {i \in 1..Len(gnn_edges) : Test(gnn_edges[i])}

HoldersOf(userId, company) ==
  {p \in ConnectedProfileIds(userId) : ProfileById(p).company = company}

AllMapped(userId) ==
  \A p \in ConnectedProfileIds(userId) :
    \E i \in 1..Len(gnn_node_profiles) : gnn_node_profiles[i].profile_id = p

AffiliationRunFromEmpty ==
  /\ ret.op = "createAffiliationEdges"
  /\ ret.before = 0
  /\ AllMapped(ret.user)

EveryConnectionMapped ==
  \A i \in 1..Len(connections) :
    \E k \in 1..Len(gnn_node_profiles) :
      gnn_node_profiles[k] = ProfileMapping(connections[i].profile_id,
                                            connections[i].user_id)

C6_MutualEdgesCreated ==
  (ret.op = "createMutualAppearanceEdges" /\ EveryConnectionMapped) =>
    \A p \in GraphProfileIds : Cardinality(Range(UsersOf(p))) > 1 =>
      \A q \in GraphProfileIds \ {p} : SharedNetworks(UsersOf(p), q) > 0 =>
        \E i \in 1..Len(gnn_edges) :
          /\ gnn_edges[i].edge_type = "mutual"
          /\ gnn_edges[i].source_id = NodeId(p)
          /\ gnn_edges[i].target_id = NodeId(q)
          /\ RatEq(gnn_edges[i].weight,
                   Rat(SharedNetworks(UsersOf(p), q), Cardinality(Range(UsersOf(p)))))

(* C7: the node of a profile lists every user whose createNodeFromProfile  *)
(* call for that profile has completed.                                    *)

C7_NodeKeepsContributors ==
  \A i \in 1..Len(gnn_node_profiles) :
    LET m == gnn_node_profiles[i]
    IN (NodeExists(gnn_nodes, m.node_id) /\ <<m.profile_id, m.user_id>> \notin inflight)
         => m.user_id \in Range(NodeRow(gnn_nodes, m.node_id).source_user_ids)

(* C8: every row generatePredictions has just written carries              *)
(* score = min(1.0, 0.2 * m + 0.15 * a + 0.1 * t) for the numbers m, a, t  *)
(* of mutual, affiliation and title_similarity edges touching its target   *)
(* node, and every stored score lies in [0, 1].                            *)

Touching(nodeId, ty) ==
  {i \in 1..Len(gnn_edges) :
     /\ gnn_edges[i].edge_type = ty
     /\ nodeId \in {gnn_edges[i].source_id, gnn_edges[i].target_id}}

\* twentieths: 0.2 = 4/20, 0.15 = 3/20, 0.1 = 2/20
ClaimedScore(nodeId) ==
  LET sum == 4 * Cardinality(Touching(nodeId, "mutual"))
             + 3 * Cardinality(Touching(nodeId, "affiliation"))
             + 2 * Cardinality(Touching(nodeId, "title_similarity"))
  IN Rat(IF sum > 20 THEN 20 ELSE sum, 20)

NewPredictions ==
  IF ret.op = "generatePredictions"
  THEN {gnn_predictions[i] : i \in (ret.before + 1)..Len(gnn_predictions)}
  ELSE {}

EveryProfileMapped ==
  \A p \in GraphProfileIds : ProfileToNode(p) # NULL

C9_OneRowPerCandidate ==
  (ret.op = "generatePredictions" /\ EveryProfileMapped) =>
    \A p \in GraphProfileIds :
      Cardinality({i \in (ret.before + 1)..Len(gnn_predictions) :
                     gnn_predictions[i].target_node_id = NodeId(p)})
        = IF p \in ConnectedProfileIds(ret.user) THEN 0 ELSE 1

(* C10: the comparison compareNetworks(A, B) has just written holds, for   *)
(* every profile P, one mutual_connection result with profile_a_id =       *)
(* profile_b_id = P and score 1.0 when P is connected to both A and B, and *)
(* none otherwise.                                                         *)

MutualResultIndexes(sessionId) ==
  {i \in 1..Len(comparison_results) :
     /\ comparison_results[i].session_id = sessionId
     /\ comparison_results[i].result_type = "mutual_connection"}

C10_MutualConnections ==
  ret.op = "compareNetworks" =>
    /\ \A p \in GraphProfileIds :
         Cardinality({i \in MutualResultIndexes(ret.value) :
                        /\ comparison_results[i].profile_a_id = p
                        /\ comparison_results[i].profile_b_id = p
                        /\ RatEq(comparison_results[i].score, Rat(1, 1))})
           = IF p \in ConnectedProfileIds(ret.a) \cap ConnectedProfileIds(ret.b)
             THEN 1 ELSE 0
    /\ \A i \in MutualResultIndexes(ret.value) :
         /\ comparison_results[i].profile_a_id = comparison_results[i].profile_b_id
         /\ RatEq(comparison_results[i].score, Rat(1, 1))

\* A and B differ, share a profile and each has one the other lacks
C10_Witness ==
  /\ ret.op = "compareNetworks"
  /\ ret.a # ret.b
  /\ ConnectedProfileIds(ret.a) \cap ConnectedProfileIds(ret.b) # {}
  /\ ConnectedProfileIds(ret.a) \ ConnectedProfileIds(ret.b) # {}
  /\ ConnectedProfileIds(ret.b) \ ConnectedProfileIds(ret.a) # {}
  /\ MutualResultIndexes(ret.value) # {}

(* C5: after a title-similarity run from an empty gnn_edges, two mapped    *)
(* profiles of one job-function group with non-empty titles are joined by  *)
(* a title_similarity edge exactly when (tokens the lower-cased titles     *)
(* share) / (distinct tokens of both) reaches the threshold, and the edge  *)
(* weighs that quotient: 1.0 for identical titles.                         *)

TokenSet(title) == Range(TitleWords(title))

ClaimedSimilarity(titleA, titleB) ==
  Rat(Cardinality(TokenSet(titleA) \cap TokenSet(titleB)),
      Cardinality(TokenSet(titleA) \cup TokenSet(titleB)))

TitleEdgesBetween(p, q) ==
  {i \in 1..Len(gnn_edges) :
     /\ gnn_edges[i].edge_type = "title_similarity"
     /\ {gnn_edges[i].source_id, gnn_edges[i].target_id} = {NodeId(p), NodeId(q)}}

SameFunctionPair(userId, p, q) ==
  /\ p # q
  /\ {p, q} \subseteq ConnectedProfileIds(userId)
  /\ SameTruthy(ProfileById(p).job_function, ProfileById(q).job_function)
  /\ TitleWords(ProfileById(p).title) # <<>>
  /\ TitleWords(ProfileById(q).title) # <<>>
  /\ ProfileToNode(p) # NULL
  /\ ProfileToNode(q) # NULL

C5_TitleSimilarity ==
  (ret.op = "createTitleSimilarityEdges" /\ ret.before = 0) =>
    \A p, q \in GraphProfileIds : SameFunctionPair(ret.user, p, q) =>
      LET sim == ClaimedSimilarity(ProfileById(p).title, ProfileById(q).title)
      IN /\ (TitleEdgesBetween(p, q) # {} <=> RatLeq(ret.threshold, sim))
         /\ \A i \in TitleEdgesBetween(p, q) : RatEq(gnn_edges[i].weight, sim)
         /\ (ProfileById(p).title = ProfileById(q).title =>
               \A i \in TitleEdgesBetween(p, q) : RatEq(gnn_edges[i].weight, Rat(1, 1)))

(* C11: the comparison compareNetworks(A, B) has just written holds a      *)
(* predicted_match for a profile connected to A only and a profile         *)
(* connected to B only exactly when 0.3 for the same non-empty company,    *)
(* 0.2 for the same job function, 0.2 for the same industry, 0.1 for the   *)
(* same role level and 0.05 for every skill the two share add up to 0.3 or *)
(* more; the row's score is that total, and no predicted_match names a     *)
(* mutual connection.                                                      *)

SkillSet(skills) == IF skills = NULL THEN {} ELSE Range(skills)

\* twentieths: 0.3 = 6/20, 0.2 = 4/20, 0.1 = 2/20, 0.05 = 1/20
ClaimedMatchScore(a, b) ==
  (IF SameTruthy(a.company, b.company) THEN 6 ELSE 0)
  + (IF SameTruthy(a.job_function, b.job_function) THEN 4 ELSE 0)
  + (IF SameTruthy(a.industry, b.industry) THEN 4 ELSE 0)
  + (IF SameTruthy(a.role_level, b.role_level) THEN 2 ELSE 0)
  + Cardinality(SkillSet(a.skills) \cap SkillSet(b.skills))

PredictedIndexes(sessionId) ==
  {i \in 1..Len(comparison_results) :
     /\ comparison_results[i].session_id = sessionId
     /\ comparison_results[i].result_type = "predicted_match"}

MutualOf(a, b) == ConnectedProfileIds(a) \cap ConnectedProfileIds(b)

C11_PredictedMatches ==
  ret.op = "compareNetworks" =>
    /\ \A pa \in ConnectedProfileIds(ret.a) \ MutualOf(ret.a, ret.b),
          pb \in ConnectedProfileIds(ret.b) \ MutualOf(ret.a, ret.b) :
         LET total == ClaimedMatchScore(ProfileById(pa), ProfileById(pb))
             rows == {i \in PredictedIndexes(ret.value) :
                        /\ comparison_results[i].profile_a_id = pa
                        /\ comparison_results[i].profile_b_id = pb}
         IN /\ Cardinality(rows) = IF total >= 6 THEN 1 ELSE 0
            /\ \A i \in rows : RatEq(comparison_results[i].score, Rat(total, 20))
    /\ \A i \in PredictedIndexes(ret.value) :
         /\ comparison_results[i].profile_a_id \notin MutualOf(ret.a, ret.b)
         /\ comparison_results[i].profile_b_id \notin MutualOf(ret.a, ret.b)

(* C12: a session is inserted with status pending and no completed_at; its *)
(* status changes only from pending to completed, and completed_at is set  *)
(* by that change; every comparison_results row carries the id of a        *)
(* session that is pending when the row is written.                        *)

SessionById(tbl, id) == tbl[CHOOSE i \in 1..Len(tbl) : tbl[i].id = id]

SessionStep ==
  /\ Len(comparison_sessions') >= Len(comparison_sessions)
  /\ \A i \in 1..Len(comparison_sessions) :
       LET old == comparison_sessions[i]
           new == comparison_sessions'[i]
       IN /\ new.id = old.id
          /\ \/ new = old
             \/ /\ old.status = "pending"
                /\ new.status = "completed"
                /\ new.completed_at # NULL
  /\ \A i \in (Len(comparison_sessions) + 1)..Len(comparison_sessions') :
       /\ comparison_sessions'[i].status = "pending"
       /\ comparison_sessions'[i].completed_at = NULL

ResultStep ==
  /\ Len(comparison_results') >= Len(comparison_results)
  /\ \A i \in 1..Len(comparison_results) :
       comparison_results'[i] = comparison_results[i]
  /\ \A i \in (Len(comparison_results) + 1)..Len(comparison_results') :
       /\ \E j \in 1..Len(comparison_sessions) :
            comparison_sessions[j].id = comparison_results'[i].session_id
       /\ SessionById(comparison_sessions, comparison_results'[i].session_id).status
            = "pending"
       /\ SessionById(comparison_sessions', comparison_results'[i].session_id).status
            = "pending"

SessionStatusesSound ==
  \A i \in 1..Len(comparison_sessions) :
    /\ comparison_sessions[i].status \in {"pending", "completed"}
    /\ (comparison_sessions[i].status = "completed"
          <=> comparison_sessions[i].completed_at # NULL)

C12_SessionLifecycle ==
  []SessionStatusesSound /\ [][SessionStep /\ ResultStep]_vars

\* a completed session owning a mutual connection and a predicted match
C12_Witness ==
  \E i \in 1..Len(comparison_sessions) :
    /\ comparison_sessions[i].status = "completed"
    /\ MutualResultIndexes(comparison_sessions[i].id) # {}
    /\ PredictedIndexes(comparison_sessions[i].id) # {}

(* C13: parseConnectionDate applied to its own output returns the same     *)
(* instant: once a date string of a recognised shape has been parsed,      *)
(* parsing the result again, at any later time, gives that instant.        *)

InstantOf(iso) == DateParse(iso, 0, "strict")

C13_ParseIdempotent ==
  [][(ret.op = "parseConnectionDate" /\ ret'.op = "parseConnectionDate") =>
       /\ InstantOf(ret.value) # Invalid
       /\ InstantOf(ret'.value) = InstantOf(ret.value)]_vars

\* a date read as local time east of UTC has been parsed twice while the
\* clock ran
C13_Witness ==
  /\ ret.op = "parseConnectionDate"
  /\ ret.calls >= 2
  /\ ret.tz > 0
  /\ ret.now > ImportTime
  /\ InstantOf(ret.value) = UtcInstant(2025, 4, 5, 23, 0, 0)

(* C14: every contact processCSVFile or processZIPFile returns has a first *)
(* name and a last name.                                                   *)

Uploaded == ret.op \in {"processCSVFile", "processZIPFile"} /\ ret.value.ok

C14_NamesRequired ==
  Uploaded =>
    \A i \in 1..Len(ret.value.contacts) :
      ret.value.contacts[i].first # <<>> /\ ret.value.contacts[i].last # <<>>

(* C15: processZIPFile returns the same contacts for an archive and for    *)
(* the archive holding the same files in the opposite order.               *)

C15_OrderIndependent ==
  ret.op = "processZIPFile" => processZIPFileOf(Reverse(ret.archive)) = ret.value

(* C16: a company, position, profile URL, primary email, invitation        *)
(* status, invitation timestamp or invitation message that a contact holds *)
(* after the first n lines of an uploaded CSV file is the one it holds     *)
(* after n + 1 lines, and the one a contact holds after the files of one   *)
(* kind is the one it holds after the files of the next kind.              *)

Kept(before, after) ==
  \A i \in 1..Len(before) :
    MapHas(after, before[i].key) =>
      LET old == before[i]
          new == MapGet(after, before[i].key)
      IN /\ old.company # <<>> => new.company = old.company
         /\ old.position # <<>> => new.position = old.position
         /\ old.url # <<>> => new.url = old.url
         /\ old.email # <<>> => new.email = old.email
         /\ old.invStatus # <<>> => new.invStatus = old.invStatus
         /\ old.invSentAt # <<>> => new.invSentAt = old.invSentAt
         /\ old.invMessage # <<>> => new.invMessage = old.invMessage

FirstLines(file, n) ==
  [file EXCEPT !.lines = SubSeq(file.lines, 1, IF n < Len(file.lines) THEN n ELSE Len(file.lines))]

\* the archive with the files of one kind cut to their first n lines
Cut(archive, kind, n) ==
  [i \in 1..Len(archive) |->
     IF NameKind(archive[i].name) = kind THEN FirstLines(archive[i], n)
     ELSE archive[i]]

\* the contacts map of processZIPFile after the files of the first n kinds
RECURSIVE AfterKinds(_, _)
AfterKinds(archive, n) ==
  IF n = 0 THEN <<>>
  ELSE ZipStage(archive, FileKinds[n], AfterKinds(archive, n - 1))

C16_FirstValueWins ==
  /\ ret.op = "processCSVFile" =>
       \A n \in 1..(Len(ret.archive[1].lines) - 1) :
         Kept(CsvContacts(FirstLines(ret.archive[1], n)),
              CsvContacts(FirstLines(ret.archive[1], n + 1)))
  /\ ret.op = "processZIPFile" =>
       \A k \in 1..4 :
         /\ Kept(AfterKinds(ret.archive, k - 1), AfterKinds(ret.archive, k))
         /\ \A n \in 1..(MaxLines - 1) :
              Kept(AfterKinds(Cut(ret.archive, FileKinds[k], n), k),
                   AfterKinds(Cut(ret.archive, FileKinds[k], n + 1), k))

(* C17: the additional emails and the phone numbers of a returned contact  *)
(* hold every value of every line of the processed Contacts.csv that names *)
(* the contact, each once.                                                 *)

ProcessedContactsLines ==
  IF ret.op = "processCSVFile" THEN
    IF CsvKind(ret.archive[1]) = "contacts" THEN LinesFor(ret.archive[1], "contacts")
    ELSE <<>>
  ELSE IF FilesOf(ret.archive, "contacts") # <<>>
          /\ FirstFile(ret.archive, "contacts").readable
       THEN LinesFor(FirstFile(ret.archive, "contacts"), "contacts")
       ELSE <<>>

NoRepeat(list) == \A i, j \in 1..Len(list) : list[i] = list[j] => i = j

C17_ListsUnioned ==
  Uploaded =>
    \A i \in 1..Len(ret.value.contacts) :
      LET c == ret.value.contacts[i]
      IN /\ NoRepeat(c.emails) /\ NoRepeat(c.phones)
         /\ \A k \in 1..Len(ProcessedContactsLines) :
              LET line == ProcessedContactsLines[k]
              IN line[1] \o line[2] = c.key =>
                   /\ Range(line[5]) \subseteq Range(c.emails)
                   /\ Range(line[6]) \subseteq Range(c.phones)

(* C18: no contact an upload returns bears the name of the account owner.  *)

C18_OwnerExcluded ==
  Uploaded =>
    \A i \in 1..Len(ret.value.contacts) :
      /\ ret.value.contacts[i].key # OwnerName
      /\ ret.value.contacts[i].first \o ret.value.contacts[i].last # OwnerName

(* C19: whatever files of an archive are absent or unreadable, every       *)
(* person with a first and a last name that a readable Contacts.csv,       *)
(* Invitations.csv or messages.csv names is among the returned contacts,   *)
(* and processZIPFile fails only when no file yields a contact.            *)

Yield(archive, kind) ==
  IF FilesOf(archive, kind) = <<>> \/ ~FirstFile(archive, kind).readable THEN <<>>
  ELSE IF kind = "connections"
       THEN PutConnections(<<>>, parseCSV(LinesFor(FirstFile(archive, kind), kind)))
       ELSE SelectSeq(ParsedAs(kind, LinesFor(FirstFile(archive, kind), kind)),
                      LAMBDA e : e.first # <<>> /\ e.last # <<>>)

C19_OtherFilesStillProcessed ==
  ret.op = "processZIPFile" =>
    /\ \A k \in 1..4 :
         \A i \in 1..Len(Yield(ret.archive, FileKinds[k])) :
           /\ ret.value.ok
           /\ MapHas(ret.value.contacts, Yield(ret.archive, FileKinds[k])[i].key)
    /\ ~ret.value.ok => \A k \in 1..4 : Yield(ret.archive, FileKinds[k]) = <<>>

Unreadable(archive, kind) ==
  FilesOf(archive, kind) # <<>> /\ ~FirstFile(archive, kind).readable

\* Connections.csv and Invitations.csv cannot be read; Contacts.csv and
\* messages.csv each bring a person
C19_Witness ==
  /\ ret.op = "processZIPFile"
  /\ Unreadable(ret.archive, "connections")
  /\ Unreadable(ret.archive, "invitations")
  /\ Yield(ret.archive, "contacts") # <<>>
  /\ Yield(ret.archive, "messages") # <<>>
  /\ ret.value.ok
  /\ Len(ret.value.contacts) >= 2

(* C20: an import that extracted at least one contact shows no error when  *)
(* its data is processed; an upload shows an error only when no contact    *)
(* was extracted.                                                          *)

C20_FailsOnlyWithoutContacts ==
  /\ ret.op \in {"processCSVFile", "processZIPFile"} =>
       (~ret.value.ok <=> ret.value.contacts = <<>>)
  /\ ret.op = "handleProcessData" => ~ret.error

(* C21: the profiles handleProcessData passes to upsertProfiles all have a *)
(* name and a profile URL, and every contact of the import that has both   *)
(* is among them, whatever contacts were rejected before it; when the      *)
(* profiles are saved each of them is in the table.                        *)

Valid(contact) == contact.first \o contact.last # <<>> /\ contact.url # <<>>

C21_InvalidSkipped ==
  ret.op = "handleProcessData" =>
    /\ \A i \in 1..Len(ret.batch) :
         ret.batch[i].full_name # <<>> /\ ret.batch[i].linkedin_url # <<>>
    /\ \A k \in 1..Len(ret.value.contacts) :
         Valid(ret.value.contacts[k]) =>
           /\ \E i \in 1..Len(ret.batch) :
                /\ ret.batch[i].linkedin_url = ret.value.contacts[k].url
                /\ ret.batch[i].full_name =
                     ret.value.contacts[k].first \o ret.value.contacts[k].last
           /\ ~ret.error => UrlExists(profiles, ret.value.contacts[k].url)

\* a contact without a profile URL precedes one that is saved
C21_Witness ==
  /\ ret.op = "handleProcessData"
  /\ ~ret.error
  /\ \E j, k \in 1..Len(ret.value.contacts) :
       /\ j < k
       /\ ~Valid(ret.value.contacts[j])
       /\ Valid(ret.value.contacts[k])
       /\ UrlExists(profiles, ret.value.contacts[k].url)

(* C28: every connection handleProcessData writes is dated by the          *)
(* Connected On value of the contact whose profile URL is that of the      *)
(* connection's profile.                                                   *)

ContactOfProfile(profileId) ==
  LET url == profiles[CHOOSE i \in 1..Len(profiles) : profiles[i].id = profileId].linkedin_url
  IN ret.value.contacts[CHOOSE k \in 1..Len(ret.value.contacts) :
                          ret.value.contacts[k].url = url]

C28_ConnectionFromOwnContact ==
  ret.op = "handleProcessData" =>
    \A i \in 1..Len(connections) :
      connections[i].connected_on =
        parseConnectionDateOf(ContactOfProfile(connections[i].profile_id).connectedOn,
                              ImportTime, ret.tz, ret.engine)

(* C22: once a profile's enriched_at holds a timestamp, no step of         *)
(* enrichProfiles and no re-import changes it.                             *)

EnrichedAtKept ==
  \A i \in 1..Len(profiles) :
    profiles[i].enriched_at # NotEnriched =>
      profiles'[i].enriched_at = profiles[i].enriched_at

C22_EnrichedOnce == [][EnrichedAtKept]_vars

(* C23: enrichProfile returns exactly the fields of fallbackEnrichment     *)
(* whenever the call is rejected, answers with a status other than 2xx or  *)
(* with text that is not valid JSON; otherwise every field but the         *)
(* timestamp is the one of the parsed answer (no skills when the answer    *)
(* has no list of them).                                                   *)

FromAnswer(data, json) ==
  /\ data.role_level = json.seniority_level
  /\ data.job_function = json.job_function
  /\ data.industry = json.industry
  /\ data.company_size = json.company_size
  /\ data.skills \in {json.skills, <<>>}
  /\ data.company_location = json.company_location
  /\ data.is_public = json.is_public
  /\ data.founded_year = json.founded_year

C23_FallbackOrAnswer ==
  ret.op = "enrichProfile" =>
    IF ret.response.kind = "ok" THEN FromAnswer(ret.data, ret.response.json)
    ELSE ret.data = fallbackEnrichment(ret.profile, ret.now)

\* the text does not parse and the rules give another role level and job
\* function than the text names
C23_Witness ==
  /\ ret.op = "enrichProfile"
  /\ ret.response.kind = "badJson"
  /\ ret.data.role_level # ret.response.json.seniority_level
  /\ ret.data.job_function # ret.response.json.job_function
  /\ ret.data.enriched_at = <<ret.now>>

(* C26: every profile that an enrichment pass has written has role level   *)
(* IC, Manager or Executive.                                               *)

C26_RoleLevels ==
  \A i \in 1..Len(profiles) :
    profiles[i].enriched_at # NotEnriched =>
      profiles[i].role_level \in {"IC", "Manager", "Executive"}

(* C27: parseConnectionDate of "4/6/25 8:35 AM" is a time of 6 April 2025, *)
(* the year read as 20YY by the rule for two-digit years; it is not the    *)
(* current instant.                                                        *)

ShortDateTime ==
  <<Num(4, 1), Sep("/"), Num(6, 1), Sep("/"), Num(25, 2), Sep(" "),
    Num(8, 1), Sep(":"), Num(35, 2), Sep(" "), Word("AM", 2)>>

C27_TwoDigitYear ==
  (ret.op = "parseConnectionDate" /\ ret.input = ShortDateTime) =>
    /\ SubSeq(ret.value, 1, 5)
         = <<Num(2025, 4), Sep("-"), Num(4, 2), Sep("-"), Num(6, 2)>>
    /\ ret.value # toISOString(ret.now)

(* C25: the weight of every row of gnn_edges lies between 0 and 1, both    *)
(* included, whatever its edge type.                                       *)

C25_WeightsInUnitInterval ==
  \A i \in 1..Len(gnn_edges) :
    /\ RatLeq(Rat(0, 1), gnn_edges[i].weight)
    /\ RatLeq(gnn_edges[i].weight, Rat(1, 1))

(* C24: processCSVFile parses a readable file as the kind its name hints   *)
(* at, whatever headers it holds, and as the kind of its headers only when *)
(* the name hints at none.                                                 *)

ClaimedCsvKind(file) ==
  IF NameKind(file.name) # "none" THEN NameKind(file.name) ELSE file.header

ContactsAs(file, kind) ==
  IF kind = "connections"
  THEN PutConnections(<<>>, parseCSV(LinesFor(file, "connections")))
  ELSE IF kind = "contacts"
  THEN PutAll(<<>>, parseContactsCSV(LinesFor(file, "contacts")), "contact")
  ELSE IF kind = "invitations"
  THEN PutAll(<<>>, parseInvitationsCSV(LinesFor(file, "invitations")), "invitation")
  ELSE PutAll(<<>>, parseMessagesCSV(LinesFor(file, "messages")), "message")

C24_NameBeforeContent ==
  (ret.op = "processCSVFile" /\ ret.archive[1].readable) =>
    LET contacts == ContactsAs(ret.archive[1], ClaimedCsvKind(ret.archive[1]))
    IN ret.value = IF contacts = <<>> THEN Rejected ELSE Resolved(contacts)

(* C29: in every predicted_match row the factors same_company,             *)
(* same_job_function, same_industry and same_role_level are true exactly   *)
(* when the increment of that factor is part of the score: when both       *)
(* profiles have the attribute and it is the same.                         *)

FactorsAgree(row) ==
  LET a == ProfileById(row.profile_a_id)
      b == ProfileById(row.profile_b_id)
      factors == row.details.factors
  IN /\ factors.same_company <=> SameTruthy(a.company, b.company)
     /\ factors.same_job_function <=> SameTruthy(a.job_function, b.job_function)
     /\ factors.same_industry <=> SameTruthy(a.industry, b.industry)
     /\ factors.same_role_level <=> SameTruthy(a.role_level, b.role_level)

C29_FactorsAgreeWithScore ==
  \A i \in 1..Len(comparison_results) :
    comparison_results[i].result_type = "predicted_match" =>
      FactorsAgree(comparison_results[i])

(* C30: a compareNetworks that returns its session id has completed the    *)
(* session, completed_at set, and every row it was to insert is stored;    *)
(* one that returns null after creating its session does not leave the     *)
(* session pending with some of its rows.                                  *)

ResultsOfSession(sessionId) ==
  SelectSeq(comparison_results, LAMBDA row : row.session_id = sessionId)

AllResults(sessionId, userAId, userBId) ==
  LET idsA == ProfileIdsOf(userAId)
      idsB == ProfileIdsOf(userBId)
      mutual == MutualProfileIds(idsA, idsB)
  IN MutualResults(sessionId, mutual)
     \o PredictedResults(sessionId, idsA, idsB, mutual)
     \o TagResults(sessionId, TagsOf(userAId), TagsOf(userBId))

\* the call that returned null names the session it had created
ReturnedNull == "session" \in DOMAIN ret

C30_ReturnMatchesStore ==
  ret.op = "compareNetworks" =>
    IF ~ReturnedNull
    THEN /\ SessionById(comparison_sessions, ret.value).status = "completed"
         /\ SessionById(comparison_sessions, ret.value).completed_at # NULL
         /\ ResultsOfSession(ret.value) = AllResults(ret.value, ret.a, ret.b)
    ELSE \/ SessionById(comparison_sessions, ret.session).status # "pending"
         \/ ResultsOfSession(ret.session) = <<>>
         \/ ResultsOfSession(ret.session) = AllResults(ret.session, ret.a, ret.b)
====
